---- MODULE Spec2Model ----
(***************************************************************************)
(* Model of python_ocr/advanced_ocr_service.py: the AdvancedOCR pipeline   *)
(* (native text + OCR + tables -> reconcile -> deduplicate -> coverage)    *)
(* and the POST /extract handler in front of it.                           *)
(*                                                                         *)
(* Numbers.  Bounding boxes are kept in integer units of 1/16 of the page  *)
(* (every such value and every sum or product of two of them is an exact   *)
(* binary float, so the comparisons of the code come out the same).        *)
(* Confidences are integer percents.  The two quotients the code compares  *)
(* with a threshold (IoU, text similarity) and the coverage quotients are  *)
(* kept as fractions [num, den] and compared by cross-multiplication.      *)
(* A text is a sequence of one-character strings.                          *)
(***************************************************************************)
EXTENDS Integers, Sequences, FiniteSets, TLC

VARIABLES
    pc,               \* where the running call stands
    service,          \* the AdvancedOCR object and the import-time availability flags
    file,             \* the upload of the request being served
    exc,              \* the exception in flight
    response,         \* the HTTP response of the request
    native_data,      \* result of _extract_pdf_native
    ocr_data,         \* result of _extract_pdf_via_ocr
    table_data,       \* result of _extract_pdf_tables
    reconciled_pages, \* the list _reconcile_extraction_sources builds
    result,           \* the document a pipeline returned
    layout_elements,  \* result of _analyze_layout
    words,            \* argument of _deduplicate_words
    word_idx,         \* its outer loop's position
    unique_words,     \* its result list
    raw_page,         \* a page as a collaborator reports it, in absolute units
    emitted           \* the records an adapter has built from it

vars == <<pc, service, file, exc, response, native_data, ocr_data, table_data,
          reconciled_pages, result, layout_elements,
          words, word_idx, unique_words, raw_page, emitted>>

requestVars == <<service, file, exc, response>>
pdfVars     == <<native_data, ocr_data, table_data, reconciled_pages>>
imageVars   == <<layout_elements>>
dedupVars   == <<words, word_idx, unique_words>>
adapterVars == <<raw_page, emitted>>

-----------------------------------------------------------------------------
(* Bounds of the model *)

MaxLen == 3

-----------------------------------------------------------------------------
(* Fractions *)

Frac(n, d) == [num |-> n, den |-> d]

FracGtTenths(f, tenths) == f.num * 10 > tenths * f.den

-----------------------------------------------------------------------------
(* Texts *)

(* Python's None where a dict is expected *)
None == [none |-> TRUE]

Min2(a, b) == IF a <= b THEN a ELSE b
Max2(a, b) == IF a >= b THEN a ELSE b

(* The characters of a text are one-character strings.  The tables below
   cover every character a string of this module can hold (U+0001..U+00FF
   but the grave accent, and the characters of the Basic Multilingual Plane whose low byte is
   0x80 or more); a lower-case form outside that range is written by its
   code point, "U+0253". *)

(* what str.split() separates on and str.strip() strips *)
Whitespace == {"\t", "\n", "", "\f", "\r", "", "", "", "", " ", "", " ",
    " "}

IsSpace(ch) == ch \in Whitespace

(* the characters str.lower() changes, and what it changes them to *)
UpperLetters == <<"A", "B", "C", "D", "E", "F", "G", "H", "I", "J", "K", "L",
    "M", "N", "O", "P", "Q", "R", "S", "T", "U", "V", "W", "X", "Y", "Z", "À",
    "Á", "Â", "Ã", "Ä", "Å", "Æ", "Ç", "È", "É", "Ê", "Ë", "Ì", "Í", "Î", "Ï",
    "Ð", "Ñ", "Ò", "Ó", "Ô", "Õ", "Ö", "Ø", "Ù", "Ú", "Û", "Ü", "Ý", "Þ", "Ɓ",
    "Ƃ", "Ƅ", "Ɔ", "Ƈ", "Ɖ", "Ɗ", "Ƌ", "Ǝ", "Ə", "Ɛ", "Ƒ", "Ɠ", "Ɣ", "Ɩ", "Ɨ",
    "Ƙ", "Ɯ", "Ɲ", "Ɵ", "Ơ", "Ƣ", "Ƥ", "Ʀ", "Ƨ", "Ʃ", "Ƭ", "Ʈ", "Ư", "Ʊ", "Ʋ",
    "Ƴ", "Ƶ", "Ʒ", "Ƹ", "Ƽ", "Ǆ", "ǅ", "Ǉ", "ǈ", "Ǌ", "ǋ", "Ǎ", "Ǐ", "Ǒ", "Ǔ",
    "Ǖ", "Ǘ", "Ǚ", "Ǜ", "Ǟ", "Ǡ", "Ǣ", "Ǥ", "Ǧ", "Ǩ", "Ǫ", "Ǭ", "Ǯ", "Ǳ", "ǲ",
    "Ǵ", "Ƕ", "Ƿ", "Ǹ", "Ǻ", "Ǽ", "Ǿ", "Ά", "Έ", "Ή", "Ί", "Ό", "Ύ", "Ώ", "Α",
    "Β", "Γ", "Δ", "Ε", "Ζ", "Η", "Θ", "Ι", "Κ", "Λ", "Μ", "Ν", "Ξ", "Ο", "Π",
    "Ρ", "Σ", "Τ", "Υ", "Φ", "Χ", "Ψ", "Ω", "Ϊ", "Ϋ", "Ϗ", "Ϙ", "Ϛ", "Ϝ", "Ϟ",
    "Ϡ", "Ϣ", "Ϥ", "Ϧ", "Ϩ", "Ϫ", "Ϭ", "Ϯ", "ϴ", "Ϸ", "Ϲ", "Ϻ", "Ͻ", "Ͼ", "Ͽ",
    "Ҁ", "Ҋ", "Ҍ", "Ҏ", "Ґ", "Ғ", "Ҕ", "Җ", "Ҙ", "Қ", "Ҝ", "Ҟ", "Ҡ", "Ң", "Ҥ",
    "Ҧ", "Ҩ", "Ҫ", "Ҭ", "Ү", "Ұ", "Ҳ", "Ҵ", "Ҷ", "Ҹ", "Һ", "Ҽ", "Ҿ", "Ӏ", "Ӂ",
    "Ӄ", "Ӆ", "Ӈ", "Ӊ", "Ӌ", "Ӎ", "Ӑ", "Ӓ", "Ӕ", "Ӗ", "Ә", "Ӛ", "Ӝ", "Ӟ", "Ӡ",
    "Ӣ", "Ӥ", "Ӧ", "Ө", "Ӫ", "Ӭ", "Ӯ", "Ӱ", "Ӳ", "Ӵ", "Ӷ", "Ӹ", "Ӻ", "Ӽ", "Ӿ",
    "Ⴀ", "Ⴁ", "Ⴂ", "Ⴃ", "Ⴄ", "Ⴅ", "Ⴆ", "Ⴇ", "Ⴈ", "Ⴉ", "Ⴊ", "Ⴋ", "Ⴌ", "Ⴍ", "Ⴎ",
    "Ⴏ", "Ⴐ", "Ⴑ", "Ⴒ", "Ⴓ", "Ⴔ", "Ⴕ", "Ⴖ", "Ⴗ", "Ⴘ", "Ⴙ", "Ⴚ", "Ⴛ", "Ⴜ", "Ⴝ",
    "Ⴞ", "Ⴟ", "Ⴠ", "Ⴡ", "Ⴢ", "Ⴣ", "Ⴤ", "Ⴥ", "Ⴧ", "Ⴭ", "Ꭰ", "Ꭱ", "Ꭲ", "Ꭳ", "Ꭴ",
    "Ꭵ", "Ꭶ", "Ꭷ", "Ꭸ", "Ꭹ", "Ꭺ", "Ꭻ", "Ꭼ", "Ꭽ", "Ꭾ", "Ꭿ", "Ꮀ", "Ꮁ", "Ꮂ", "Ꮃ",
    "Ꮄ", "Ꮅ", "Ꮆ", "Ꮇ", "Ꮈ", "Ꮉ", "Ꮊ", "Ꮋ", "Ꮌ", "Ꮍ", "Ꮎ", "Ꮏ", "Ꮐ", "Ꮑ", "Ꮒ",
    "Ꮓ", "Ꮔ", "Ꮕ", "Ꮖ", "Ꮗ", "Ꮘ", "Ꮙ", "Ꮚ", "Ꮛ", "Ꮜ", "Ꮝ", "Ꮞ", "Ꮟ", "Ꮠ", "Ꮡ",
    "Ꮢ", "Ꮣ", "Ꮤ", "Ꮥ", "Ꮦ", "Ꮧ", "Ꮨ", "Ꮩ", "Ꮪ", "Ꮫ", "Ꮬ", "Ꮭ", "Ꮮ", "Ꮯ", "Ꮰ",
    "Ꮱ", "Ꮲ", "Ꮳ", "Ꮴ", "Ꮵ", "Ꮶ", "Ꮷ", "Ꮸ", "Ꮹ", "Ꮺ", "Ꮻ", "Ꮼ", "Ꮽ", "Ꮾ", "Ꮿ",
    "Ᏸ", "Ᏹ", "Ᏺ", "Ᏻ", "Ᏼ", "Ᏽ", "Ა", "Ბ", "Გ", "Დ", "Ე", "Ვ", "Ზ", "Თ", "Ი",
    "Კ", "Ლ", "Მ", "Ნ", "Ო", "Პ", "Ჟ", "Რ", "Ს", "Ტ", "Უ", "Ფ", "Ქ", "Ღ", "Ყ",
    "Შ", "Ჩ", "Ც", "Ძ", "Წ", "Ჭ", "Ხ", "Ჯ", "Ჰ", "Ჱ", "Ჲ", "Ჳ", "Ჴ", "Ჵ", "Ჶ",
    "Ჷ", "Ჸ", "Ჹ", "Ჺ", "Ჽ", "Ჾ", "Ჿ", "Ẁ", "Ẃ", "Ẅ", "Ẇ", "Ẉ", "Ẋ", "Ẍ", "Ẏ",
    "Ẑ", "Ẓ", "Ẕ", "ẞ", "Ạ", "Ả", "Ấ", "Ầ", "Ẩ", "Ẫ", "Ậ", "Ắ", "Ằ", "Ẳ", "Ẵ",
    "Ặ", "Ẹ", "Ẻ", "Ẽ", "Ế", "Ề", "Ể", "Ễ", "Ệ", "Ỉ", "Ị", "Ọ", "Ỏ", "Ố", "Ồ",
    "Ổ", "Ỗ", "Ộ", "Ớ", "Ờ", "Ở", "Ỡ", "Ợ", "Ụ", "Ủ", "Ứ", "Ừ", "Ử", "Ữ", "Ự",
    "Ỳ", "Ỵ", "Ỷ", "Ỹ", "Ỻ", "Ỽ", "Ỿ", "ᾈ", "ᾉ", "ᾊ", "ᾋ", "ᾌ", "ᾍ", "ᾎ", "ᾏ",
    "ᾘ", "ᾙ", "ᾚ", "ᾛ", "ᾜ", "ᾝ", "ᾞ", "ᾟ", "ᾨ", "ᾩ", "ᾪ", "ᾫ", "ᾬ", "ᾭ", "ᾮ",
    "ᾯ", "Ᾰ", "Ᾱ", "Ὰ", "Ά", "ᾼ", "Ὲ", "Έ", "Ὴ", "Ή", "ῌ", "Ῐ", "Ῑ", "Ὶ", "Ί",
    "Ῠ", "Ῡ", "Ὺ", "Ύ", "Ῥ", "Ὸ", "Ό", "Ὼ", "Ώ", "ῼ", "Ↄ", "Ⓐ", "Ⓑ", "Ⓒ", "Ⓓ",
    "Ⓔ", "Ⓕ", "Ⓖ", "Ⓗ", "Ⓘ", "Ⓙ", "Ⓚ", "Ⓛ", "Ⓜ", "Ⓝ", "Ⓞ", "Ⓟ", "Ⓠ", "Ⓡ", "Ⓢ",
    "Ⓣ", "Ⓤ", "Ⓥ", "Ⓦ", "Ⓧ", "Ⓨ", "Ⓩ", "Ⲁ", "Ⲃ", "Ⲅ", "Ⲇ", "Ⲉ", "Ⲋ", "Ⲍ", "Ⲏ",
    "Ⲑ", "Ⲓ", "Ⲕ", "Ⲗ", "Ⲙ", "Ⲛ", "Ⲝ", "Ⲟ", "Ⲡ", "Ⲣ", "Ⲥ", "Ⲧ", "Ⲩ", "Ⲫ", "Ⲭ",
    "Ⲯ", "Ⲱ", "Ⲳ", "Ⲵ", "Ⲷ", "Ⲹ", "Ⲻ", "Ⲽ", "Ⲿ", "Ⳁ", "Ⳃ", "Ⳅ", "Ⳇ", "Ⳉ", "Ⳋ",
    "Ⳍ", "Ⳏ", "Ⳑ", "Ⳓ", "Ⳕ", "Ⳗ", "Ⳙ", "Ⳛ", "Ⳝ", "Ⳟ", "Ⳡ", "Ⳣ", "Ⳬ", "Ⳮ", "Ⳳ",
    "Ꚁ", "Ꚃ", "Ꚅ", "Ꚇ", "Ꚉ", "Ꚋ", "Ꚍ", "Ꚏ", "Ꚑ", "Ꚓ", "Ꚕ", "Ꚗ", "Ꚙ", "Ꚛ", "Ꞁ",
    "Ꞃ", "Ꞅ", "Ꞇ", "Ꞌ", "Ɥ", "Ꞑ", "Ꞓ", "Ꞗ", "Ꞙ", "Ꞛ", "Ꞝ", "Ꞟ", "Ꞡ", "Ꞣ", "Ꞥ",
    "Ꞧ", "Ꞩ", "Ɦ", "Ɜ", "Ɡ", "Ɬ", "Ɪ", "Ʞ", "Ʇ", "Ʝ", "Ꭓ", "Ꞵ", "Ꞷ", "Ꞹ", "Ꞻ",
    "Ꞽ", "Ꞿ", "Ꟁ", "Ꟃ", "Ꞔ", "Ʂ", "Ᶎ", "Ꟈ", "Ꟊ", "Ꟑ", "Ꟗ", "Ꟙ", "Ꟶ">>

LowerLetters == <<"a", "b", "c", "d", "e", "f", "g", "h", "i", "j", "k", "l",
    "m", "n", "o", "p", "q", "r", "s", "t", "u", "v", "w", "x", "y", "z", "à",
    "á", "â", "ã", "ä", "å", "æ", "ç", "è", "é", "ê", "ë", "ì", "í", "î", "ï",
    "ð", "ñ", "ò", "ó", "ô", "õ", "ö", "ø", "ù", "ú", "û", "ü", "ý", "þ",
    "U+0253", "ƃ", "ƅ", "U+0254", "ƈ", "U+0256", "U+0257", "ƌ", "ǝ", "U+0259",
    "U+025B", "ƒ", "U+0260", "U+0263", "U+0269", "U+0268", "ƙ", "U+026F",
    "U+0272", "U+0275", "ơ", "ƣ", "ƥ", "ʀ", "ƨ", "ʃ", "ƭ", "ʈ", "ư", "ʊ", "ʋ",
    "ƴ", "ƶ", "ʒ", "ƹ", "ƽ", "ǆ", "ǆ", "ǉ", "ǉ", "ǌ", "ǌ", "ǎ", "ǐ", "ǒ", "ǔ",
    "ǖ", "ǘ", "ǚ", "ǜ", "ǟ", "ǡ", "ǣ", "ǥ", "ǧ", "ǩ", "ǫ", "ǭ", "ǯ", "ǳ", "ǳ",
    "ǵ", "ƕ", "ƿ", "ǹ", "ǻ", "ǽ", "ǿ", "ά", "έ", "ή", "ί", "ό", "ύ", "ώ", "α",
    "β", "γ", "δ", "ε", "ζ", "η", "θ", "ι", "κ", "λ", "μ", "ν", "ξ", "ο", "π",
    "ρ", "σ", "τ", "υ", "φ", "χ", "ψ", "ω", "ϊ", "ϋ", "ϗ", "ϙ", "ϛ", "ϝ", "ϟ",
    "ϡ", "ϣ", "ϥ", "ϧ", "ϩ", "ϫ", "ϭ", "ϯ", "θ", "ϸ", "ϲ", "ϻ", "U+037B",
    "U+037C", "U+037D", "ҁ", "ҋ", "ҍ", "ҏ", "ґ", "ғ", "ҕ", "җ", "ҙ", "қ", "ҝ",
    "ҟ", "ҡ", "ң", "ҥ", "ҧ", "ҩ", "ҫ", "ҭ", "ү", "ұ", "ҳ", "ҵ", "ҷ", "ҹ", "һ",
    "ҽ", "ҿ", "ӏ", "ӂ", "ӄ", "ӆ", "ӈ", "ӊ", "ӌ", "ӎ", "ӑ", "ӓ", "ӕ", "ӗ", "ә",
    "ӛ", "ӝ", "ӟ", "ӡ", "ӣ", "ӥ", "ӧ", "ө", "ӫ", "ӭ", "ӯ", "ӱ", "ӳ", "ӵ", "ӷ",
    "ӹ", "ӻ", "ӽ", "ӿ", "U+2D00", "U+2D01", "U+2D02", "U+2D03", "U+2D04",
    "U+2D05", "U+2D06", "U+2D07", "U+2D08", "U+2D09", "U+2D0A", "U+2D0B",
    "U+2D0C", "U+2D0D", "U+2D0E", "U+2D0F", "U+2D10", "U+2D11", "U+2D12",
    "U+2D13", "U+2D14", "U+2D15", "U+2D16", "U+2D17", "U+2D18", "U+2D19",
    "U+2D1A", "U+2D1B", "U+2D1C", "U+2D1D", "U+2D1E", "U+2D1F", "U+2D20",
    "U+2D21", "U+2D22", "U+2D23", "U+2D24", "U+2D25", "U+2D27", "U+2D2D",
    "U+AB70", "U+AB71", "U+AB72", "U+AB73", "U+AB74", "U+AB75", "U+AB76",
    "U+AB77", "U+AB78", "U+AB79", "U+AB7A", "U+AB7B", "U+AB7C", "U+AB7D",
    "U+AB7E", "U+AB7F", "ꮀ", "ꮁ", "ꮂ", "ꮃ", "ꮄ", "ꮅ", "ꮆ", "ꮇ", "ꮈ", "ꮉ", "ꮊ",
    "ꮋ", "ꮌ", "ꮍ", "ꮎ", "ꮏ", "ꮐ", "ꮑ", "ꮒ", "ꮓ", "ꮔ", "ꮕ", "ꮖ", "ꮗ", "ꮘ", "ꮙ",
    "ꮚ", "ꮛ", "ꮜ", "ꮝ", "ꮞ", "ꮟ", "ꮠ", "ꮡ", "ꮢ", "ꮣ", "ꮤ", "ꮥ", "ꮦ", "ꮧ", "ꮨ",
    "ꮩ", "ꮪ", "ꮫ", "ꮬ", "ꮭ", "ꮮ", "ꮯ", "ꮰ", "ꮱ", "ꮲ", "ꮳ", "ꮴ", "ꮵ", "ꮶ", "ꮷ",
    "ꮸ", "ꮹ", "ꮺ", "ꮻ", "ꮼ", "ꮽ", "ꮾ", "ꮿ", "ᏸ", "ᏹ", "ᏺ", "ᏻ", "ᏼ", "ᏽ", "ა",
    "ბ", "გ", "დ", "ე", "ვ", "ზ", "თ", "ი", "კ", "ლ", "მ", "ნ", "ო", "პ", "ჟ",
    "რ", "ს", "ტ", "უ", "ფ", "ქ", "ღ", "ყ", "შ", "ჩ", "ც", "ძ", "წ", "ჭ", "ხ",
    "ჯ", "ჰ", "ჱ", "ჲ", "ჳ", "ჴ", "ჵ", "ჶ", "ჷ", "ჸ", "ჹ", "ჺ", "ჽ", "ჾ", "ჿ",
    "ẁ", "ẃ", "ẅ", "ẇ", "ẉ", "ẋ", "ẍ", "ẏ", "ẑ", "ẓ", "ẕ", "ß", "ạ", "ả", "ấ",
    "ầ", "ẩ", "ẫ", "ậ", "ắ", "ằ", "ẳ", "ẵ", "ặ", "ẹ", "ẻ", "ẽ", "ế", "ề", "ể",
    "ễ", "ệ", "ỉ", "ị", "ọ", "ỏ", "ố", "ồ", "ổ", "ỗ", "ộ", "ớ", "ờ", "ở", "ỡ",
    "ợ", "ụ", "ủ", "ứ", "ừ", "ử", "ữ", "ự", "ỳ", "ỵ", "ỷ", "ỹ", "ỻ", "ỽ", "ỿ",
    "ᾀ", "ᾁ", "ᾂ", "ᾃ", "ᾄ", "ᾅ", "ᾆ", "ᾇ", "ᾐ", "ᾑ", "ᾒ", "ᾓ", "ᾔ", "ᾕ", "ᾖ",
    "ᾗ", "ᾠ", "ᾡ", "ᾢ", "ᾣ", "ᾤ", "ᾥ", "ᾦ", "ᾧ", "ᾰ", "ᾱ", "U+1F70", "U+1F71",
    "ᾳ", "U+1F72", "U+1F73", "U+1F74", "U+1F75", "ῃ", "ῐ", "ῑ", "U+1F76",
    "U+1F77", "ῠ", "ῡ", "U+1F7A", "U+1F7B", "ῥ", "U+1F78", "U+1F79", "U+1F7C",
    "U+1F7D", "ῳ", "ↄ", "ⓐ", "ⓑ", "ⓒ", "ⓓ", "ⓔ", "ⓕ", "ⓖ", "ⓗ", "ⓘ", "ⓙ", "ⓚ",
    "ⓛ", "ⓜ", "ⓝ", "ⓞ", "ⓟ", "ⓠ", "ⓡ", "ⓢ", "ⓣ", "ⓤ", "ⓥ", "ⓦ", "ⓧ", "ⓨ", "ⓩ",
    "ⲁ", "ⲃ", "ⲅ", "ⲇ", "ⲉ", "ⲋ", "ⲍ", "ⲏ", "ⲑ", "ⲓ", "ⲕ", "ⲗ", "ⲙ", "ⲛ", "ⲝ",
    "ⲟ", "ⲡ", "ⲣ", "ⲥ", "ⲧ", "ⲩ", "ⲫ", "ⲭ", "ⲯ", "ⲱ", "ⲳ", "ⲵ", "ⲷ", "ⲹ", "ⲻ",
    "ⲽ", "ⲿ", "ⳁ", "ⳃ", "ⳅ", "ⳇ", "ⳉ", "ⳋ", "ⳍ", "ⳏ", "ⳑ", "ⳓ", "ⳕ", "ⳗ", "ⳙ",
    "ⳛ", "ⳝ", "ⳟ", "ⳡ", "ⳣ", "ⳬ", "ⳮ", "ⳳ", "ꚁ", "ꚃ", "ꚅ", "ꚇ", "ꚉ", "ꚋ", "ꚍ",
    "ꚏ", "ꚑ", "ꚓ", "ꚕ", "ꚗ", "ꚙ", "ꚛ", "ꞁ", "ꞃ", "ꞅ", "ꞇ", "ꞌ", "U+0265", "ꞑ",
    "ꞓ", "ꞗ", "ꞙ", "ꞛ", "ꞝ", "ꞟ", "ꞡ", "ꞣ", "ꞥ", "ꞧ", "ꞩ", "U+0266", "U+025C",
    "U+0261", "U+026C", "U+026A", "ʞ", "ʇ", "ʝ", "U+AB53", "ꞵ", "ꞷ", "ꞹ", "ꞻ",
    "ꞽ", "ꞿ", "ꟁ", "ꟃ", "ꞔ", "ʂ", "ᶎ", "ꟈ", "ꟊ", "ꟑ", "ꟗ", "ꟙ", "ꟶ">>

LowerOf ==
    [ch \in {UpperLetters[k] : k \in DOMAIN UpperLetters} |->
        LowerLetters[CHOOSE k \in DOMAIN UpperLetters : UpperLetters[k] = ch]]

LowerChar(ch) == IF ch \in DOMAIN LowerOf THEN LowerOf[ch] ELSE ch

(* str.lower() writes a capital sigma as the final sigma when a cased letter
   stands before it and none after it, case-ignorable characters skipped *)
CapitalSigma == "Σ"
FinalSigma == "ς"

(* the case-ignorable characters *)
CaseIgnorable == {"'", ".", ":", "^", "¨", "­", "¯", "´", "·", "¸", "ʰ", "ʱ",
    "ʲ", "ʳ", "ʴ", "ʵ", "ʶ", "ʷ", "ʸ", "ʹ", "ʺ", "ʻ", "ʼ", "ʽ", "ʾ", "ʿ", "ˀ",
    "ˁ", "˂", "˃", "˄", "˅", "ˆ", "ˇ", "ˈ", "ˉ", "ˊ", "ˋ", "ˌ", "ˍ", "ˎ", "ˏ",
    "ː", "ˑ", "˒", "˓", "˔", "˕", "˖", "˗", "˘", "˙", "˚", "˛", "˜", "˝", "˞",
    "˟", "ˠ", "ˡ", "ˢ", "ˣ", "ˤ", "˥", "˦", "˧", "˨", "˩", "˪", "˫", "ˬ", "˭",
    "ˮ", "˯", "˰", "˱", "˲", "˳", "˴", "˵", "˶", "˷", "˸", "˹", "˺", "˻", "˼",
    "˽", "˾", "˿", "΄", "΅", "·", "҃", "҄", "҅", "҆", "҇", "҈", "҉", "֑", "֒",
    "֓", "֔", "֕", "֖", "֗", "֘", "֙", "֚", "֛", "֜", "֝", "֞", "֟", "֠", "֡",
    "֢", "֣", "֤", "֥", "֦", "֧", "֨", "֩", "֪", "֫", "֬", "֭", "֮", "֯", "ְ",
    "ֱ", "ֲ", "ֳ", "ִ", "ֵ", "ֶ", "ַ", "ָ", "ֹ", "ֺ", "ֻ", "ּ", "ֽ", "ֿ", "ׁ",
    "ׂ", "ׄ", "ׅ", "ׇ", "״", "ۖ", "ۗ", "ۘ", "ۙ", "ۚ", "ۛ", "ۜ", "۝", "۟", "۠",
    "ۡ", "ۢ", "ۣ", "ۤ", "ۥ", "ۦ", "ۧ", "ۨ", "۪", "۫", "۬", "ۭ", "ަ", "ާ", "ި",
    "ީ", "ު", "ޫ", "ެ", "ޭ", "ޮ", "ޯ", "ް", "߫", "߬", "߭", "߮", "߯", "߰", "߱",
    "߲", "߳", "ߴ", "ߵ", "ߺ", "߽", "࢈", "࢐", "࢑", "࢘", "࢙", "࢚", "࢛", "࢜", "࢝",
    "࢞", "࢟", "ࣉ", "࣊", "࣋", "࣌", "࣍", "࣎", "࣏", "࣐", "࣑", "࣒", "࣓", "ࣔ", "ࣕ",
    "ࣖ", "ࣗ", "ࣘ", "ࣙ", "ࣚ", "ࣛ", "ࣜ", "ࣝ", "ࣞ", "ࣟ", "࣠", "࣡", "࣢", "ࣣ", "ࣤ",
    "ࣥ", "ࣦ", "ࣧ", "ࣨ", "ࣩ", "࣪", "࣫", "࣬", "࣭", "࣮", "࣯", "ࣰ", "ࣱ", "ࣲ", "ࣳ",
    "ࣴ", "ࣵ", "ࣶ", "ࣷ", "ࣸ", "ࣹ", "ࣺ", "ࣻ", "ࣼ", "ࣽ", "ࣾ", "ࣿ", "ঁ", "়", "ু",
    "ূ", "ৃ", "ৄ", "্", "ৢ", "ৣ", "৾", "ઁ", "ં", "઼", "ુ", "ૂ", "ૃ", "ૄ", "ૅ",
    "ે", "ૈ", "્", "ૢ", "ૣ", "ૺ", "ૻ", "ૼ", "૽", "૾", "૿", "ஂ", "ீ", "்", "ಁ",
    "಼", "ಿ", "ೆ", "ೌ", "್", "ೢ", "ೣ", "ඁ", "්", "ි", "ී", "ු", "ූ", "ັ", "ິ",
    "ີ", "ຶ", "ື", "ຸ", "ູ", "຺", "ົ", "ຼ", "ໆ", "່", "້", "໊", "໋", "໌", "ໍ",
    "ྀ", "ཱྀ", "ྂ", "ྃ", "྄", "྆", "྇", "ྍ", "ྎ", "ྏ", "ྐ", "ྑ", "ྒ", "ྒྷ", "ྔ",
    "ྕ", "ྖ", "ྗ", "ྙ", "ྚ", "ྛ", "ྜ", "ྜྷ", "ྞ", "ྟ", "ྠ", "ྡ", "ྡྷ", "ྣ", "ྤ",
    "ྥ", "ྦ", "ྦྷ", "ྨ", "ྩ", "ྪ", "ྫ", "ྫྷ", "ྭ", "ྮ", "ྯ", "ྰ", "ྱ", "ྲ", "ླ",
    "ྴ", "ྵ", "ྶ", "ྷ", "ྸ", "ྐྵ", "ྺ", "ྻ", "ྼ", "࿆", "ႂ", "ႅ", "ႆ", "ႍ", "ႝ",
    "ჼ", "឴", "឵", "ិ", "ី", "ឹ", "ឺ", "ុ", "ូ", "ួ", "ំ", "៉", "៊", "់", "៌",
    "៍", "៎", "៏", "័", "៑", "្", "៓", "ៗ", "៝", "ᢅ", "ᢆ", "ᢩ", "ᪧ", "᪰", "᪱",
    "᪲", "᪳", "᪴", "᪵", "᪶", "᪷", "᪸", "᪹", "᪺", "᪻", "᪼", "᪽", "᪾", "ᪿ", "ᫀ",
    "᫁", "᫂", "᫃", "᫄", "᫅", "᫆", "᫇", "᫈", "᫉", "᫊", "᫋", "ᫌ", "ᫍ", "ᫎ", "ᮀ",
    "ᮁ", "ᮢ", "ᮣ", "ᮤ", "ᮥ", "ᮨ", "ᮩ", "᮫", "ᮬ", "ᮭ", "᯦", "ᯨ", "ᯩ", "ᯭ", "ᯯ",
    "ᯰ", "ᯱ", "᳐", "᳑", "᳒", "᳔", "᳕", "᳖", "᳗", "᳘", "᳙", "᳚", "᳛", "᳜", "᳝",
    "᳞", "᳟", "᳠", "᳢", "᳣", "᳤", "᳥", "᳦", "᳧", "᳨", "᳭", "᳴", "᳸", "᳹", "ᶛ",
    "ᶜ", "ᶝ", "ᶞ", "ᶟ", "ᶠ", "ᶡ", "ᶢ", "ᶣ", "ᶤ", "ᶥ", "ᶦ", "ᶧ", "ᶨ", "ᶩ", "ᶪ",
    "ᶫ", "ᶬ", "ᶭ", "ᶮ", "ᶯ", "ᶰ", "ᶱ", "ᶲ", "ᶳ", "ᶴ", "ᶵ", "ᶶ", "ᶷ", "ᶸ", "ᶹ",
    "ᶺ", "ᶻ", "ᶼ", "ᶽ", "ᶾ", "ᶿ", "᷀", "᷁", "᷂", "᷃", "᷄", "᷅", "᷆", "᷇", "᷈",
    "᷉", "᷊", "᷋", "᷌", "᷍", "᷎", "᷏", "᷐", "᷑", "᷒", "ᷓ", "ᷔ", "ᷕ", "ᷖ", "ᷗ",
    "ᷘ", "ᷙ", "ᷚ", "ᷛ", "ᷜ", "ᷝ", "ᷞ", "ᷟ", "ᷠ", "ᷡ", "ᷢ", "ᷣ", "ᷤ", "ᷥ", "ᷦ",
    "ᷧ", "ᷨ", "ᷩ", "ᷪ", "ᷫ", "ᷬ", "ᷭ", "ᷮ", "ᷯ", "ᷰ", "ᷱ", "ᷲ", "ᷳ", "ᷴ", "᷵",
    "᷶", "᷷", "᷸", "᷹", "᷺", "᷻", "᷼", "᷽", "᷾", "᷿", "᾽", "᾿", "῀", "῁", "῍",
    "῎", "῏", "῝", "῞", "῟", "῭", "΅", "`", "´", "῾", "ₐ", "ₑ", "ₒ", "ₓ", "ₔ",
    "ₕ", "ₖ", "ₗ", "ₘ", "ₙ", "ₚ", "ₛ", "ₜ", "⃐", "⃑", "⃒", "⃓", "⃔", "⃕", "⃖",
    "⃗", "⃘", "⃙", "⃚", "⃛", "⃜", "⃝", "⃞", "⃟", "⃠", "⃡", "⃢", "⃣", "⃤", "⃥",
    "⃦", "⃧", "⃨", "⃩", "⃪", "⃫", "⃬", "⃭", "⃮", "⃯", "⃰", "⳯", "⳰", "⳱", "ⷠ",
    "ⷡ", "ⷢ", "ⷣ", "ⷤ", "ⷥ", "ⷦ", "ⷧ", "ⷨ", "ⷩ", "ⷪ", "ⷫ", "ⷬ", "ⷭ", "ⷮ", "ⷯ",
    "ⷰ", "ⷱ", "ⷲ", "ⷳ", "ⷴ", "ⷵ", "ⷶ", "ⷷ", "ⷸ", "ⷹ", "ⷺ", "ⷻ", "ⷼ", "ⷽ", "ⷾ",
    "ⷿ", "゙", "゚", "゛", "゜", "ゝ", "ゞ", "ー", "ヽ", "ヾ", "ꓸ", "ꓹ", "ꓺ", "ꓻ", "ꓼ",
    "ꓽ", "ꚜ", "ꚝ", "ꚞ", "ꚟ", "꛰", "꛱", "ꞈ", "꞉", "꞊", "ꟲ", "ꟳ", "ꟴ", "ꟸ", "ꟹ",
    "꣄", "ꣅ", "꣠", "꣡", "꣢", "꣣", "꣤", "꣥", "꣦", "꣧", "꣨", "꣩", "꣪", "꣫", "꣬",
    "꣭", "꣮", "꣯", "꣰", "꣱", "ꣿ", "ꦀ", "ꦁ", "ꦂ", "꦳", "ꦶ", "ꦷ", "ꦸ", "ꦹ", "ꦼ",
    "ꦽ", "ꧏ", "ꧥ", "ꧦ", "ꪰ", "ꪲ", "ꪳ", "ꪴ", "ꪷ", "ꪸ", "ꪾ", "꪿", "꫁", "ꫝ", "ꫬ",
    "ꫭ", "ꫳ", "ꫴ", "꫶", "ꯥ", "ꯨ", "꯭", "﮲", "﮳", "﮴", "﮵", "﮶", "﮷", "﮸", "﮹",
    "﮺", "﮻", "﮼", "﮽", "﮾", "﮿", "﯀", "﯁", "﯂", "﻿", "ﾞ", "ﾟ", "￣", "￹", "￺",
    "￻"}

(* the cased characters that are not case-ignorable *)
CasedLetters == {"A", "B", "C", "D", "E", "F", "G", "H", "I", "J", "K", "L",
    "M", "N", "O", "P", "Q", "R", "S", "T", "U", "V", "W", "X", "Y", "Z", "a",
    "b", "c", "d", "e", "f", "g", "h", "i", "j", "k", "l", "m", "n", "o", "p",
    "q", "r", "s", "t", "u", "v", "w", "x", "y", "z", "ª", "µ", "º", "À", "Á",
    "Â", "Ã", "Ä", "Å", "Æ", "Ç", "È", "É", "Ê", "Ë", "Ì", "Í", "Î", "Ï", "Ð",
    "Ñ", "Ò", "Ó", "Ô", "Õ", "Ö", "Ø", "Ù", "Ú", "Û", "Ü", "Ý", "Þ", "ß", "à",
    "á", "â", "ã", "ä", "å", "æ", "ç", "è", "é", "ê", "ë", "ì", "í", "î", "ï",
    "ð", "ñ", "ò", "ó", "ô", "õ", "ö", "ø", "ù", "ú", "û", "ü", "ý", "þ", "ÿ",
    "ƀ", "Ɓ", "Ƃ", "ƃ", "Ƅ", "ƅ", "Ɔ", "Ƈ", "ƈ", "Ɖ", "Ɗ", "Ƌ", "ƌ", "ƍ", "Ǝ",
    "Ə", "Ɛ", "Ƒ", "ƒ", "Ɠ", "Ɣ", "ƕ", "Ɩ", "Ɨ", "Ƙ", "ƙ", "ƚ", "ƛ", "Ɯ", "Ɲ",
    "ƞ", "Ɵ", "Ơ", "ơ", "Ƣ", "ƣ", "Ƥ", "ƥ", "Ʀ", "Ƨ", "ƨ", "Ʃ", "ƪ", "ƫ", "Ƭ",
    "ƭ", "Ʈ", "Ư", "ư", "Ʊ", "Ʋ", "Ƴ", "ƴ", "Ƶ", "ƶ", "Ʒ", "Ƹ", "ƹ", "ƺ", "Ƽ",
    "ƽ", "ƾ", "ƿ", "Ǆ", "ǅ", "ǆ", "Ǉ", "ǈ", "ǉ", "Ǌ", "ǋ", "ǌ", "Ǎ", "ǎ", "Ǐ",
    "ǐ", "Ǒ", "ǒ", "Ǔ", "ǔ", "Ǖ", "ǖ", "Ǘ", "ǘ", "Ǚ", "ǚ", "Ǜ", "ǜ", "ǝ", "Ǟ",
    "ǟ", "Ǡ", "ǡ", "Ǣ", "ǣ", "Ǥ", "ǥ", "Ǧ", "ǧ", "Ǩ", "ǩ", "Ǫ", "ǫ", "Ǭ", "ǭ",
    "Ǯ", "ǯ", "ǰ", "Ǳ", "ǲ", "ǳ", "Ǵ", "ǵ", "Ƕ", "Ƿ", "Ǹ", "ǹ", "Ǻ", "ǻ", "Ǽ",
    "ǽ", "Ǿ", "ǿ", "ʀ", "ʁ", "ʂ", "ʃ", "ʄ", "ʅ", "ʆ", "ʇ", "ʈ", "ʉ", "ʊ", "ʋ",
    "ʌ", "ʍ", "ʎ", "ʏ", "ʐ", "ʑ", "ʒ", "ʓ", "ʕ", "ʖ", "ʗ", "ʘ", "ʙ", "ʚ", "ʛ",
    "ʜ", "ʝ", "ʞ", "ʟ", "ʠ", "ʡ", "ʢ", "ʣ", "ʤ", "ʥ", "ʦ", "ʧ", "ʨ", "ʩ", "ʪ",
    "ʫ", "ʬ", "ʭ", "ʮ", "ʯ", "Ά", "Έ", "Ή", "Ί", "Ό", "Ύ", "Ώ", "ΐ", "Α", "Β",
    "Γ", "Δ", "Ε", "Ζ", "Η", "Θ", "Ι", "Κ", "Λ", "Μ", "Ν", "Ξ", "Ο", "Π", "Ρ",
    "Σ", "Τ", "Υ", "Φ", "Χ", "Ψ", "Ω", "Ϊ", "Ϋ", "ά", "έ", "ή", "ί", "ΰ", "α",
    "β", "γ", "δ", "ε", "ζ", "η", "θ", "ι", "κ", "λ", "μ", "ν", "ξ", "ο", "π",
    "ρ", "ς", "σ", "τ", "υ", "φ", "χ", "ψ", "ω", "ϊ", "ϋ", "ό", "ύ", "ώ", "Ϗ",
    "ϐ", "ϑ", "ϒ", "ϓ", "ϔ", "ϕ", "ϖ", "ϗ", "Ϙ", "ϙ", "Ϛ", "ϛ", "Ϝ", "ϝ", "Ϟ",
    "ϟ", "Ϡ", "ϡ", "Ϣ", "ϣ", "Ϥ", "ϥ", "Ϧ", "ϧ", "Ϩ", "ϩ", "Ϫ", "ϫ", "Ϭ", "ϭ",
    "Ϯ", "ϯ", "ϰ", "ϱ", "ϲ", "ϳ", "ϴ", "ϵ", "Ϸ", "ϸ", "Ϲ", "Ϻ", "ϻ", "ϼ", "Ͻ",
    "Ͼ", "Ͽ", "Ҁ", "ҁ", "Ҋ", "ҋ", "Ҍ", "ҍ", "Ҏ", "ҏ", "Ґ", "ґ", "Ғ", "ғ", "Ҕ",
    "ҕ", "Җ", "җ", "Ҙ", "ҙ", "Қ", "қ", "Ҝ", "ҝ", "Ҟ", "ҟ", "Ҡ", "ҡ", "Ң", "ң",
    "Ҥ", "ҥ", "Ҧ", "ҧ", "Ҩ", "ҩ", "Ҫ", "ҫ", "Ҭ", "ҭ", "Ү", "ү", "Ұ", "ұ", "Ҳ",
    "ҳ", "Ҵ", "ҵ", "Ҷ", "ҷ", "Ҹ", "ҹ", "Һ", "һ", "Ҽ", "ҽ", "Ҿ", "ҿ", "Ӏ", "Ӂ",
    "ӂ", "Ӄ", "ӄ", "Ӆ", "ӆ", "Ӈ", "ӈ", "Ӊ", "ӊ", "Ӌ", "ӌ", "Ӎ", "ӎ", "ӏ", "Ӑ",
    "ӑ", "Ӓ", "ӓ", "Ӕ", "ӕ", "Ӗ", "ӗ", "Ә", "ә", "Ӛ", "ӛ", "Ӝ", "ӝ", "Ӟ", "ӟ",
    "Ӡ", "ӡ", "Ӣ", "ӣ", "Ӥ", "ӥ", "Ӧ", "ӧ", "Ө", "ө", "Ӫ", "ӫ", "Ӭ", "ӭ", "Ӯ",
    "ӯ", "Ӱ", "ӱ", "Ӳ", "ӳ", "Ӵ", "ӵ", "Ӷ", "ӷ", "Ӹ", "ӹ", "Ӻ", "ӻ", "Ӽ", "ӽ",
    "Ӿ", "ӿ", "ր", "ց", "ւ", "փ", "ք", "օ", "ֆ", "և", "ֈ", "Ⴀ", "Ⴁ", "Ⴂ", "Ⴃ",
    "Ⴄ", "Ⴅ", "Ⴆ", "Ⴇ", "Ⴈ", "Ⴉ", "Ⴊ", "Ⴋ", "Ⴌ", "Ⴍ", "Ⴎ", "Ⴏ", "Ⴐ", "Ⴑ", "Ⴒ",
    "Ⴓ", "Ⴔ", "Ⴕ", "Ⴖ", "Ⴗ", "Ⴘ", "Ⴙ", "Ⴚ", "Ⴛ", "Ⴜ", "Ⴝ", "Ⴞ", "Ⴟ", "Ⴠ", "Ⴡ",
    "Ⴢ", "Ⴣ", "Ⴤ", "Ⴥ", "Ⴧ", "Ⴭ", "ა", "ბ", "გ", "დ", "ე", "ვ", "ზ", "თ", "ი",
    "კ", "ლ", "მ", "ნ", "ო", "პ", "ჟ", "რ", "ს", "ტ", "უ", "ფ", "ქ", "ღ", "ყ",
    "შ", "ჩ", "ც", "ძ", "წ", "ჭ", "ხ", "ჯ", "ჰ", "ჱ", "ჲ", "ჳ", "ჴ", "ჵ", "ჶ",
    "ჷ", "ჸ", "ჹ", "ჺ", "ჽ", "ჾ", "ჿ", "Ꭰ", "Ꭱ", "Ꭲ", "Ꭳ", "Ꭴ", "Ꭵ", "Ꭶ", "Ꭷ",
    "Ꭸ", "Ꭹ", "Ꭺ", "Ꭻ", "Ꭼ", "Ꭽ", "Ꭾ", "Ꭿ", "Ꮀ", "Ꮁ", "Ꮂ", "Ꮃ", "Ꮄ", "Ꮅ", "Ꮆ",
    "Ꮇ", "Ꮈ", "Ꮉ", "Ꮊ", "Ꮋ", "Ꮌ", "Ꮍ", "Ꮎ", "Ꮏ", "Ꮐ", "Ꮑ", "Ꮒ", "Ꮓ", "Ꮔ", "Ꮕ",
    "Ꮖ", "Ꮗ", "Ꮘ", "Ꮙ", "Ꮚ", "Ꮛ", "Ꮜ", "Ꮝ", "Ꮞ", "Ꮟ", "Ꮠ", "Ꮡ", "Ꮢ", "Ꮣ", "Ꮤ",
    "Ꮥ", "Ꮦ", "Ꮧ", "Ꮨ", "Ꮩ", "Ꮪ", "Ꮫ", "Ꮬ", "Ꮭ", "Ꮮ", "Ꮯ", "Ꮰ", "Ꮱ", "Ꮲ", "Ꮳ",
    "Ꮴ", "Ꮵ", "Ꮶ", "Ꮷ", "Ꮸ", "Ꮹ", "Ꮺ", "Ꮻ", "Ꮼ", "Ꮽ", "Ꮾ", "Ꮿ", "Ᏸ", "Ᏹ", "Ᏺ",
    "Ᏻ", "Ᏼ", "Ᏽ", "ᏸ", "ᏹ", "ᏺ", "ᏻ", "ᏼ", "ᏽ", "ᲀ", "ᲁ", "ᲂ", "ᲃ", "ᲄ", "ᲅ",
    "ᲆ", "ᲇ", "ᲈ", "Ა", "Ბ", "Გ", "Დ", "Ე", "Ვ", "Ზ", "Თ", "Ი", "Კ", "Ლ", "Მ",
    "Ნ", "Ო", "Პ", "Ჟ", "Რ", "Ს", "Ტ", "Უ", "Ფ", "Ქ", "Ღ", "Ყ", "Შ", "Ჩ", "Ც",
    "Ძ", "Წ", "Ჭ", "Ხ", "Ჯ", "Ჰ", "Ჱ", "Ჲ", "Ჳ", "Ჴ", "Ჵ", "Ჶ", "Ჷ", "Ჸ", "Ჹ",
    "Ჺ", "Ჽ", "Ჾ", "Ჿ", "ᶀ", "ᶁ", "ᶂ", "ᶃ", "ᶄ", "ᶅ", "ᶆ", "ᶇ", "ᶈ", "ᶉ", "ᶊ",
    "ᶋ", "ᶌ", "ᶍ", "ᶎ", "ᶏ", "ᶐ", "ᶑ", "ᶒ", "ᶓ", "ᶔ", "ᶕ", "ᶖ", "ᶗ", "ᶘ", "ᶙ",
    "ᶚ", "Ẁ", "ẁ", "Ẃ", "ẃ", "Ẅ", "ẅ", "Ẇ", "ẇ", "Ẉ", "ẉ", "Ẋ", "ẋ", "Ẍ", "ẍ",
    "Ẏ", "ẏ", "Ẑ", "ẑ", "Ẓ", "ẓ", "Ẕ", "ẕ", "ẖ", "ẗ", "ẘ", "ẙ", "ẚ", "ẛ", "ẜ",
    "ẝ", "ẞ", "ẟ", "Ạ", "ạ", "Ả", "ả", "Ấ", "ấ", "Ầ", "ầ", "Ẩ", "ẩ", "Ẫ", "ẫ",
    "Ậ", "ậ", "Ắ", "ắ", "Ằ", "ằ", "Ẳ", "ẳ", "Ẵ", "ẵ", "Ặ", "ặ", "Ẹ", "ẹ", "Ẻ",
    "ẻ", "Ẽ", "ẽ", "Ế", "ế", "Ề", "ề", "Ể", "ể", "Ễ", "ễ", "Ệ", "ệ", "Ỉ", "ỉ",
    "Ị", "ị", "Ọ", "ọ", "Ỏ", "ỏ", "Ố", "ố", "Ồ", "ồ", "Ổ", "ổ", "Ỗ", "ỗ", "Ộ",
    "ộ", "Ớ", "ớ", "Ờ", "ờ", "Ở", "ở", "Ỡ", "ỡ", "Ợ", "ợ", "Ụ", "ụ", "Ủ", "ủ",
    "Ứ", "ứ", "Ừ", "ừ", "Ử", "ử", "Ữ", "ữ", "Ự", "ự", "Ỳ", "ỳ", "Ỵ", "ỵ", "Ỷ",
    "ỷ", "Ỹ", "ỹ", "Ỻ", "ỻ", "Ỽ", "ỽ", "Ỿ", "ỿ", "ᾀ", "ᾁ", "ᾂ", "ᾃ", "ᾄ", "ᾅ",
    "ᾆ", "ᾇ", "ᾈ", "ᾉ", "ᾊ", "ᾋ", "ᾌ", "ᾍ", "ᾎ", "ᾏ", "ᾐ", "ᾑ", "ᾒ", "ᾓ", "ᾔ",
    "ᾕ", "ᾖ", "ᾗ", "ᾘ", "ᾙ", "ᾚ", "ᾛ", "ᾜ", "ᾝ", "ᾞ", "ᾟ", "ᾠ", "ᾡ", "ᾢ", "ᾣ",
    "ᾤ", "ᾥ", "ᾦ", "ᾧ", "ᾨ", "ᾩ", "ᾪ", "ᾫ", "ᾬ", "ᾭ", "ᾮ", "ᾯ", "ᾰ", "ᾱ", "ᾲ",
    "ᾳ", "ᾴ", "ᾶ", "ᾷ", "Ᾰ", "Ᾱ", "Ὰ", "Ά", "ᾼ", "ι", "ῂ", "ῃ", "ῄ", "ῆ", "ῇ",
    "Ὲ", "Έ", "Ὴ", "Ή", "ῌ", "ῐ", "ῑ", "ῒ", "ΐ", "ῖ", "ῗ", "Ῐ", "Ῑ", "Ὶ", "Ί",
    "ῠ", "ῡ", "ῢ", "ΰ", "ῤ", "ῥ", "ῦ", "ῧ", "Ῠ", "Ῡ", "Ὺ", "Ύ", "Ῥ", "ῲ", "ῳ",
    "ῴ", "ῶ", "ῷ", "Ὸ", "Ό", "Ὼ", "Ώ", "ῼ", "Ↄ", "ↄ", "Ⓐ", "Ⓑ", "Ⓒ", "Ⓓ", "Ⓔ",
    "Ⓕ", "Ⓖ", "Ⓗ", "Ⓘ", "Ⓙ", "Ⓚ", "Ⓛ", "Ⓜ", "Ⓝ", "Ⓞ", "Ⓟ", "Ⓠ", "Ⓡ", "Ⓢ", "Ⓣ",
    "Ⓤ", "Ⓥ", "Ⓦ", "Ⓧ", "Ⓨ", "Ⓩ", "ⓐ", "ⓑ", "ⓒ", "ⓓ", "ⓔ", "ⓕ", "ⓖ", "ⓗ", "ⓘ",
    "ⓙ", "ⓚ", "ⓛ", "ⓜ", "ⓝ", "ⓞ", "ⓟ", "ⓠ", "ⓡ", "ⓢ", "ⓣ", "ⓤ", "ⓥ", "ⓦ", "ⓧ",
    "ⓨ", "ⓩ", "Ⲁ", "ⲁ", "Ⲃ", "ⲃ", "Ⲅ", "ⲅ", "Ⲇ", "ⲇ", "Ⲉ", "ⲉ", "Ⲋ", "ⲋ", "Ⲍ",
    "ⲍ", "Ⲏ", "ⲏ", "Ⲑ", "ⲑ", "Ⲓ", "ⲓ", "Ⲕ", "ⲕ", "Ⲗ", "ⲗ", "Ⲙ", "ⲙ", "Ⲛ", "ⲛ",
    "Ⲝ", "ⲝ", "Ⲟ", "ⲟ", "Ⲡ", "ⲡ", "Ⲣ", "ⲣ", "Ⲥ", "ⲥ", "Ⲧ", "ⲧ", "Ⲩ", "ⲩ", "Ⲫ",
    "ⲫ", "Ⲭ", "ⲭ", "Ⲯ", "ⲯ", "Ⲱ", "ⲱ", "Ⲳ", "ⲳ", "Ⲵ", "ⲵ", "Ⲷ", "ⲷ", "Ⲹ", "ⲹ",
    "Ⲻ", "ⲻ", "Ⲽ", "ⲽ", "Ⲿ", "ⲿ", "Ⳁ", "ⳁ", "Ⳃ", "ⳃ", "Ⳅ", "ⳅ", "Ⳇ", "ⳇ", "Ⳉ",
    "ⳉ", "Ⳋ", "ⳋ", "Ⳍ", "ⳍ", "Ⳏ", "ⳏ", "Ⳑ", "ⳑ", "Ⳓ", "ⳓ", "Ⳕ", "ⳕ", "Ⳗ", "ⳗ",
    "Ⳙ", "ⳙ", "Ⳛ", "ⳛ", "Ⳝ", "ⳝ", "Ⳟ", "ⳟ", "Ⳡ", "ⳡ", "Ⳣ", "ⳣ", "ⳤ", "Ⳬ", "ⳬ",
    "Ⳮ", "ⳮ", "Ⳳ", "ⳳ", "Ꚁ", "ꚁ", "Ꚃ", "ꚃ", "Ꚅ", "ꚅ", "Ꚇ", "ꚇ", "Ꚉ", "ꚉ", "Ꚋ",
    "ꚋ", "Ꚍ", "ꚍ", "Ꚏ", "ꚏ", "Ꚑ", "ꚑ", "Ꚓ", "ꚓ", "Ꚕ", "ꚕ", "Ꚗ", "ꚗ", "Ꚙ", "ꚙ",
    "Ꚛ", "ꚛ", "Ꞁ", "ꞁ", "Ꞃ", "ꞃ", "Ꞅ", "ꞅ", "Ꞇ", "ꞇ", "Ꞌ", "ꞌ", "Ɥ", "ꞎ", "Ꞑ",
    "ꞑ", "Ꞓ", "ꞓ", "ꞔ", "ꞕ", "Ꞗ", "ꞗ", "Ꞙ", "ꞙ", "Ꞛ", "ꞛ", "Ꞝ", "ꞝ", "Ꞟ", "ꞟ",
    "Ꞡ", "ꞡ", "Ꞣ", "ꞣ", "Ꞥ", "ꞥ", "Ꞧ", "ꞧ", "Ꞩ", "ꞩ", "Ɦ", "Ɜ", "Ɡ", "Ɬ", "Ɪ",
    "ꞯ", "Ʞ", "Ʇ", "Ʝ", "Ꭓ", "Ꞵ", "ꞵ", "Ꞷ", "ꞷ", "Ꞹ", "ꞹ", "Ꞻ", "ꞻ", "Ꞽ", "ꞽ",
    "Ꞿ", "ꞿ", "Ꟁ", "ꟁ", "Ꟃ", "ꟃ", "Ꞔ", "Ʂ", "Ᶎ", "Ꟈ", "ꟈ", "Ꟊ", "ꟊ", "Ꟑ", "ꟑ",
    "ꟓ", "ꟕ", "Ꟗ", "ꟗ", "Ꟙ", "ꟙ", "Ꟶ", "ꟶ", "ꟺ", "ꮀ", "ꮁ", "ꮂ", "ꮃ", "ꮄ", "ꮅ",
    "ꮆ", "ꮇ", "ꮈ", "ꮉ", "ꮊ", "ꮋ", "ꮌ", "ꮍ", "ꮎ", "ꮏ", "ꮐ", "ꮑ", "ꮒ", "ꮓ", "ꮔ",
    "ꮕ", "ꮖ", "ꮗ", "ꮘ", "ꮙ", "ꮚ", "ꮛ", "ꮜ", "ꮝ", "ꮞ", "ꮟ", "ꮠ", "ꮡ", "ꮢ", "ꮣ",
    "ꮤ", "ꮥ", "ꮦ", "ꮧ", "ꮨ", "ꮩ", "ꮪ", "ꮫ", "ꮬ", "ꮭ", "ꮮ", "ꮯ", "ꮰ", "ꮱ", "ꮲ",
    "ꮳ", "ꮴ", "ꮵ", "ꮶ", "ꮷ", "ꮸ", "ꮹ", "ꮺ", "ꮻ", "ꮼ", "ꮽ", "ꮾ", "ꮿ"}

IsFinalSigma(text, i) ==
    LET before == {j \in 1..(i - 1) : text[j] \notin CaseIgnorable}
        after == {j \in (i + 1)..Len(text) : text[j] \notin CaseIgnorable}
    IN  /\ before # {}
        /\ text[CHOOSE j \in before : \A k \in before : k <= j] \in CasedLetters
        /\ \/ after = {}
           \/ text[CHOOSE j \in after : \A k \in after : j <= k] \notin CasedLetters

Lower(text) ==
    [i \in 1..Len(text) |->
        IF text[i] = CapitalSigma /\ IsFinalSigma(text, i)
        THEN FinalSigma
        ELSE LowerChar(text[i])]

RECURSIVE SplitFrom(_, _, _)
SplitFrom(text, i, cur) ==
    LET flush == IF cur = <<>> THEN {} ELSE {cur} IN
    IF i > Len(text) THEN flush
    ELSE IF IsSpace(text[i]) THEN flush \cup SplitFrom(text, i + 1, <<>>)
    ELSE SplitFrom(text, i + 1, Append(cur, text[i]))

TokenSet(text) == SplitFrom(Lower(text), 1, <<>>)

TextSimilarity(text1, text2) ==
    IF text1 = <<>> \/ text2 = <<>> THEN Frac(0, 1)
    ELSE LET set1 == TokenSet(text1)
             set2 == TokenSet(text2)
             intersection == Cardinality(set1 \cap set2)
             union == Cardinality(set1 \cup set2)
         IN  IF set1 = {} /\ set2 = {} THEN Frac(1, 1)
             ELSE IF union > 0 THEN Frac(intersection, union) ELSE Frac(0, 1)

-----------------------------------------------------------------------------
(* Boxes and the match predicate of _deduplicate_words *)

IoUThresholdTenths == 7
SimThresholdTenths == 8

Box(x, y, w, h) == [x |-> x, y |-> y, width |-> w, height |-> h]

Word(t, b, c) == [text |-> t, bbox |-> b, confidence |-> c]

IX1(bbox1, bbox2) == Max2(bbox1.x, bbox2.x)
IY1(bbox1, bbox2) == Max2(bbox1.y, bbox2.y)
IX2(bbox1, bbox2) == Min2(bbox1.x + bbox1.width, bbox2.x + bbox2.width)
IY2(bbox1, bbox2) == Min2(bbox1.y + bbox1.height, bbox2.y + bbox2.height)

Overlaps(bbox1, bbox2) ==
    IX1(bbox1, bbox2) < IX2(bbox1, bbox2) /\ IY1(bbox1, bbox2) < IY2(bbox1, bbox2)

IoU(bbox1, bbox2) ==
    LET intersection == (IX2(bbox1, bbox2) - IX1(bbox1, bbox2))
                        * (IY2(bbox1, bbox2) - IY1(bbox1, bbox2))
        area1 == bbox1.width * bbox1.height
        area2 == bbox2.width * bbox2.height
    IN  Frac(intersection, area1 + area2 - intersection)

(* the match test with the text comparison left out *)
IsMatchIoUOnly(word, existing) ==
    /\ Overlaps(word.bbox, existing.bbox)
    /\ FracGtTenths(IoU(word.bbox, existing.bbox), IoUThresholdTenths)

IsMatch(word, existing) ==
    /\ Overlaps(word.bbox, existing.bbox)
    /\ FracGtTenths(IoU(word.bbox, existing.bbox), IoUThresholdTenths)
    /\ FracGtTenths(TextSimilarity(word.text, existing.text), SimThresholdTenths)

(* index of the entry at which the inner loop breaks, 0 when it runs out *)
FirstMatch(unique, word) ==
    LET hits == {j \in 1..Len(unique) : IsMatch(word, unique[j])}
    IN  IF hits = {} THEN 0 ELSE CHOOSE j \in hits : \A k \in hits : j <= k

RemoveAt(s, j) == SubSeq(s, 1, j - 1) \o SubSeq(s, j + 1, Len(s))

(* the outer loop's pass with the confidence comparison left out: the entry
   already in the list always wins *)
DedupStepKeepFirst(unique, word) ==
    IF FirstMatch(unique, word) = 0 THEN Append(unique, word) ELSE unique

(* the outer loop's pass with unique_words.remove(existing) left out *)
DedupStepNoRemove(unique, word) ==
    LET j == FirstMatch(unique, word) IN
    IF j = 0 \/ word.confidence > unique[j].confidence
    THEN Append(unique, word)
    ELSE unique

(* the outer loop's pass with the winning word written over the entry it
   beats instead of being appended *)
DedupStepInPlace(unique, word) ==
    LET j == FirstMatch(unique, word) IN
    IF j = 0 THEN Append(unique, word)
    ELSE IF word.confidence > unique[j].confidence
         THEN [unique EXCEPT ![j] = word]
         ELSE unique

(* one pass of the outer loop of _deduplicate_words *)
DedupStep(unique, word) ==
    LET j == FirstMatch(unique, word) IN
    IF j = 0 THEN Append(unique, word)
    ELSE IF word.confidence > unique[j].confidence
         THEN Append(RemoveAt(unique, j), word)
         ELSE unique

RECURSIVE DedupFrom(_, _, _)
DedupFrom(ws, i, unique) ==
    IF i > Len(ws) THEN unique
    ELSE DedupFrom(ws, i + 1, DedupStep(unique, ws[i]))

DeduplicateWords(ws) == DedupFrom(ws, 1, <<>>)

-----------------------------------------------------------------------------
(* Coverage arithmetic of _reconcile_extraction_sources *)

FracAdd(a, b) == Frac(a.num * b.den + b.num * a.den, a.den * b.den)
FracEq(a, b)  == a.num * b.den = b.num * a.den
FracLeq(a, b) == a.num * b.den <= b.num * a.den

Max3(a, b, c) == Max2(a, Max2(b, c))

(* (final / max(native, ocr, 1)) * 100 without the min(100, ...) around it *)
CoveragePercentUncapped(final_word_count, native_word_count, ocr_word_count) ==
    Frac(final_word_count * 100, Max3(native_word_count, ocr_word_count, 1))

(* min(100, (final / max(native, ocr)) * 100): the divisor without its
   floor of 1, so that a page without words divides by zero *)
CoveragePercentNoFloor(final_word_count, native_word_count, ocr_word_count) ==
    LET m == Max2(native_word_count, ocr_word_count) IN
    IF m = 0 \/ final_word_count * 100 < 100 * m
    THEN Frac(final_word_count * 100, m)
    ELSE Frac(100, 1)

(* min(100, (final / max(native, ocr, 1)) * 100) *)
CoveragePercent(final_word_count, native_word_count, ocr_word_count) ==
    LET m == Max3(native_word_count, ocr_word_count, 1) IN
    IF final_word_count * 100 < 100 * m
    THEN Frac(final_word_count * 100, m)
    ELSE Frac(100, 1)

RECURSIVE SumCoverage(_, _)
SumCoverage(pages, i) ==
    IF i > Len(pages) THEN Frac(0, 1)
    ELSE FracAdd(pages[i].coverage.coverage_percent, SumCoverage(pages, i + 1))

(* the sum of the pages' coverage_percent, without the division by len *)
OverallCoverageUndivided(pages) == SumCoverage(pages, 1)

(* sum(coverage_percent) / len(pages) if pages else 0 *)
OverallCoverage(pages) ==
    IF Len(pages) > 0
    THEN LET total == SumCoverage(pages, 1)
         IN  Frac(total.num, total.den * Len(pages))
    ELSE Frac(0, 1)

-----------------------------------------------------------------------------
(* Pages, tables, and one pass of the page loop of                         *)
(* _reconcile_extraction_sources                                           *)

(* dict.get(key, default) on a dict or on the {} that stands in for None *)
Get(d, key, default) == IF key \in DOMAIN d THEN d[key] ELSE default

NativePage(n, ws, sh) ==
    [page_number |-> n, width |-> 612, height |-> 792,
     words |-> ws, shapes |-> sh, method |-> "pdf_native"]

OcrPage(n, ws) ==
    [page_number |-> n, width |-> 1224, height |-> 1584,
     words |-> ws, method |-> "pdf_to_image_ocr"]

Table(n, k) == [page_number |-> n, table_id |-> <<"table", n - 1, k>>]

PageAt(data, page_idx) ==
    LET pages == Get(data, "pages", <<>>) IN
    IF page_idx < Len(pages) THEN pages[page_idx + 1] ELSE None

NumPages(native, ocr) ==
    Max2(Len(Get(native, "pages", <<>>)), Len(Get(ocr, "pages", <<>>)))

AllWords(native_page, ocr_page) ==
    (IF native_page # None THEN Get(native_page, "words", <<>>) ELSE <<>>)
        \o (IF ocr_page # None THEN Get(ocr_page, "words", <<>>) ELSE <<>>)

IsTableOfPage(t, n) == Get(t, "page_number", 0) = n

(* the page's tables looked up under the 0-based index *)
PageTablesZeroBased(tables, page_idx) ==
    SelectSeq(tables, LAMBDA t : IsTableOfPage(t, page_idx))

PageTables(tables, page_idx) ==
    SelectSeq(tables, LAMBDA t : IsTableOfPage(t, page_idx + 1))

ReconciledPage(native, ocr, tables, page_idx) ==
    LET native_page == PageAt(native, page_idx)
        ocr_page == PageAt(ocr, page_idx)
        first == IF native_page # None THEN native_page
                 ELSE IF ocr_page # None THEN ocr_page ELSE None
        unique == DeduplicateWords(AllWords(native_page, ocr_page))
        native_word_count ==
            IF native_page # None THEN Len(Get(native_page, "words", <<>>)) ELSE 0
        ocr_word_count ==
            IF ocr_page # None THEN Len(Get(ocr_page, "words", <<>>)) ELSE 0
        final_word_count == Len(unique)
    IN  [page_number |-> page_idx + 1,
         width |-> Get(first, "width", 1000),
         height |-> Get(first, "height", 1000),
         words |-> unique,
         tables |-> PageTables(tables, page_idx),
         shapes |-> Get(native_page, "shapes", <<>>) \o Get(ocr_page, "shapes", <<>>),
         coverage |-> [native_words |-> native_word_count,
                       ocr_words |-> ocr_word_count,
                       final_words |-> final_word_count,
                       coverage_percent |->
                           CoveragePercent(final_word_count, native_word_count,
                                           ocr_word_count)]]

ReconciledDocument(pages) ==
    [pages |-> pages,
     total_pages |-> Len(pages),
     extraction_methods |-> <<"pdf_native", "ocr_paddle", "pdf_tables">>,
     overall_coverage |-> OverallCoverage(pages)]

-----------------------------------------------------------------------------
(* _multi_engine_ocr: what the engines hand back, and how it is combined *)

TessMinConf == 30
PaddleTrigger == 10

OcrWord(t, b, c, e) == [text |-> t, bbox |-> b, confidence |-> c, engine |-> e]

(* one row of pytesseract.image_to_data *)
TessRow(t, c, b) == [text |-> t, conf |-> c, bbox |-> b]

(* what one engine does on one image: it raises, or it returns its rows *)
Raised == [ok |-> FALSE, rows |-> <<>>]
Returned(rows) == [ok |-> TRUE, rows |-> rows]

RECURSIVE StripLeft(_)
StripLeft(text) ==
    IF text # <<>> /\ IsSpace(Head(text)) THEN StripLeft(Tail(text)) ELSE text

RECURSIVE StripRight(_)
StripRight(text) ==
    IF text # <<>> /\ IsSpace(text[Len(text)])
    THEN StripRight(SubSeq(text, 1, Len(text) - 1))
    ELSE text

Strip(text) == StripRight(StripLeft(text))

RECURSIVE TessWords(_, _)
TessWords(rows, i) ==
    IF i > Len(rows) THEN <<>>
    ELSE LET row == rows[i]
             text == Strip(row.text)
             rest == TessWords(rows, i + 1)
         IN  IF row.conf > TessMinConf /\ text # <<>>
             THEN <<OcrWord(text, row.bbox, row.conf, "tesseract")>> \o rest
             ELSE rest

MultiEngineOcr(svc, tess, paddle, easy) ==
    LET w1 == IF svc.pytesseract_available /\ tess.ok
              THEN TessWords(tess.rows, 1) ELSE <<>>
        w2 == IF svc.paddle_ocr # "None" /\ Len(w1) < PaddleTrigger /\ paddle.ok
              THEN w1 \o paddle.rows ELSE w1
        w3 == IF svc.easy_ocr # "None" /\ Len(w2) = 0 /\ easy.ok
              THEN w2 \o easy.rows ELSE w2
    IN  [words |-> w3]

-----------------------------------------------------------------------------
(* POST /extract: the upload and the dispatch on its type *)

StartsWith(s, prefix) ==
    Len(s) >= Len(prefix) /\ SubSeq(s, 1, Len(prefix)) = prefix

EndsWith(s, suffix) ==
    Len(s) >= Len(suffix) /\ SubSeq(s, Len(s) - Len(suffix) + 1, Len(s)) = suffix

PdfContentType == <<"a", "p", "p", "l", "i", "c", "a", "t", "i", "o", "n", "/", "p", "d", "f">>
ImagePrefix == <<"i", "m", "a", "g", "e", "/">>
PdfExt == <<".", "p", "d", "f">>
ImageExts == { <<".", "j", "p", "g">>, <<".", "j", "p", "e", "g">>,
               <<".", "p", "n", "g">>, <<".", "b", "m", "p">>,
               <<".", "t", "i", "f", "f">> }

IsPdfUpload(f) ==
    f.content_type = PdfContentType \/ EndsWith(Lower(f.filename), PdfExt)

IsImageUpload(f) ==
    \/ StartsWith(f.content_type, ImagePrefix)
    \/ \E ext \in ImageExts : EndsWith(Lower(f.filename), ext)

(* an exception object: its class, where it was raised, the HTTP status it
   carries (0 when it is no HTTPException), and the exception it wraps *)
Exc(type, origin, status, cause) ==
    [type |-> type, origin |-> origin, status_code |-> status, cause |-> cause]

HTTPException(status, origin, cause) == Exc("HTTPException", origin, status, cause)

-----------------------------------------------------------------------------
(* Input pools *)

BoxA == Box(0, 0, 10, 4)
BoxB == Box(1, 0, 10, 4)
BoxC == Box(2, 0, 10, 4)
BoxD == Box(0, 8, 10, 4)

Boxes == {BoxA, BoxB, BoxC, BoxD}

TextAB == <<"a", " ", "B">>
TextBA == <<"b", " ", " ", "a">>
TextA  == <<"a">>

Texts == {TextAB, TextA}

Confidences == {60, 90}

(* TextBA has the tokens of TextAB in another case, order and spacing *)
WordPool ==
    {Word(t, b, c) : t \in Texts, b \in Boxes, c \in Confidences}
        \cup {Word(TextBA, BoxA, 60), Word(TextBA, BoxB, 90)}

SeqsUpTo(S, n) == UNION {[1..k -> S] : k \in 0..n}

-----------------------------------------------------------------------------
(* _deduplicate_words run on its own, one word per step *)

InitDedup ==
    /\ pc = "dedup"
    /\ words \in SeqsUpTo(WordPool, MaxLen)
    /\ word_idx = 1
    /\ unique_words = <<>>
    /\ service = None /\ file = None /\ exc = None /\ response = None
    /\ native_data = None /\ ocr_data = None /\ table_data = <<>>
    /\ reconciled_pages = <<>> /\ result = None
    /\ layout_elements = <<>>
    /\ raw_page = None /\ emitted = <<>>

DedupWord ==
    /\ pc = "dedup"
    /\ word_idx <= Len(words)
    /\ unique_words' = DedupStep(unique_words, words[word_idx])
    /\ word_idx' = word_idx + 1
    /\ UNCHANGED <<adapterVars, pc, words, requestVars, pdfVars, result, imageVars>>

DedupReturn ==
    /\ pc = "dedup"
    /\ word_idx > Len(words)
    /\ pc' = "dedup_done"
    /\ UNCHANGED <<adapterVars, dedupVars, requestVars, pdfVars, result, imageVars>>

NextDedup == DedupWord \/ DedupReturn

SpecDedup == InitDedup /\ [][NextDedup]_vars

-----------------------------------------------------------------------------
(* _deduplicate_words on words whose text may carry no token: the empty      *)
(* string, a blank, a tab and a blank, next to a one-letter text             *)

TextEmpty == <<>>
TextBlank == <<" ">>
TextTabBlank == <<"\t", " ">>

BlankPool ==
    {Word(t, b, 60) : t \in {TextEmpty, TextBlank, TextTabBlank, TextA},
                      b \in {BoxA, BoxB}}

InitBlank ==
    /\ pc = "dedup"
    /\ words \in SeqsUpTo(BlankPool, MaxLen)
    /\ word_idx = 1
    /\ unique_words = <<>>
    /\ service = None /\ file = None /\ exc = None /\ response = None
    /\ native_data = None /\ ocr_data = None /\ table_data = <<>>
    /\ reconciled_pages = <<>> /\ result = None
    /\ layout_elements = <<>>
    /\ raw_page = None /\ emitted = <<>>

SpecBlank == InitBlank /\ [][NextDedup]_vars

-----------------------------------------------------------------------------
(* What the collaborators can hand to the pipeline *)

MaxPages == 2

NatA == Word(TextAB, BoxA, 100)
NatD == Word(TextA, BoxD, 100)

ShapeLine == [type |-> "line", bbox |-> Box(0, 6, 16, 0)]
ShapeRect == [type |-> "rectangle", bbox |-> Box(2, 2, 4, 4)]

(* a page of _extract_pdf_native: its words and its shapes *)
NativeContents ==
    { [words |-> <<>>, shapes |-> <<>>],
      [words |-> <<NatA>>, shapes |-> <<ShapeLine>>],
      [words |-> <<NatA, NatD>>, shapes |-> <<ShapeRect, ShapeLine>>] }

(* what _extract_pdf_tables can return when pdfplumber finds n pages in the
   upload: the tables in page order, each numbered by the page it was found
   on *)
TableInputs(n) ==
    {<<>>}
        \cup (IF n >= 1 THEN {<<Table(1, 0)>>, <<Table(1, 0), Table(1, 1)>>} ELSE {})
        \cup (IF n >= 2 THEN {<<Table(2, 0)>>, <<Table(1, 0), Table(1, 1), Table(2, 0)>>}
              ELSE {})

RowB     == TessRow(TextBA, 90, BoxB)
RowC     == TessRow(TextA, 60, BoxC)
RowLow   == TessRow(TextA, 20, BoxD)
RowBlank == TessRow(<<" ">>, 95, BoxD)

TessOutcomes == {Raised, Returned(<<>>), Returned(<<RowB>>),
                 Returned(<<RowBlank, RowC, RowLow>>)}

PaddleOutcomes == {Raised, Returned(<<>>),
                   Returned(<<OcrWord(TextAB, BoxD, 80, "paddle")>>)}

EasyOutcomes == {Raised, Returned(<<>>),
                 Returned(<<OcrWord(TextA, BoxA, 70, "easy")>>)}

OcrResultsFor(svc) ==
    { MultiEngineOcr(svc, t, p, e) :
        t \in TessOutcomes, p \in PaddleOutcomes, e \in EasyOutcomes }

(* the AdvancedOCR object after __init__, with the import-time flag the
   pipeline reads; __init__ sets no layout_model attribute *)
Services ==
    [pytesseract_available : BOOLEAN,
     paddle_ocr : {"None", "PaddleOCR"},
     easy_ocr : {"None", "Reader"},
     pdfplumber_available : BOOLEAN]

Upload(ct, fn) == [content_type |-> ct, filename |-> fn]

Files ==
    { Upload(PdfContentType, <<"a", ".", "t", "x", "t">>),
      Upload(<<>>, <<"a", ".", "P", "D", "F">>),
      Upload(ImagePrefix \o <<"p", "n", "g">>, <<>>),
      Upload(<<"t", "e", "x", "t", "/", "p", "l", "a", "i", "n">>,
             <<"a", ".", "J", "p", "e", "g">>),
      Upload(<<"t", "e", "x", "t", "/", "p", "l", "a", "i", "n">>,
             <<"a", ".", "t", "x", "t">>),
      Upload(<<>>, <<"p", "d", "f">>),
      Upload(<<>>, <<>>) }

-----------------------------------------------------------------------------
(* The service: one request through extract_document *)

Init ==
    /\ pc = "idle"
    /\ service \in Services
    /\ file = None /\ exc = None /\ response = None
    /\ native_data = None /\ ocr_data = None /\ table_data = <<>>
    /\ reconciled_pages = <<>> /\ result = None
    /\ layout_elements = <<>>
    /\ words = <<>> /\ word_idx = 1 /\ unique_words = <<>>
    /\ raw_page = None /\ emitted = <<>>

ReceiveUpload ==
    /\ pc = "idle"
    /\ \E f \in Files : file' = f
    /\ pc' = "dispatch"
    /\ UNCHANGED <<adapterVars, service, exc, response, pdfVars, result, imageVars, dedupVars>>

DispatchPdf ==
    /\ pc = "dispatch"
    /\ IsPdfUpload(file)
    /\ pc' = "pdf_native"
    /\ UNCHANGED <<adapterVars, requestVars, pdfVars, result, imageVars, dedupVars>>

DispatchImage ==
    /\ pc = "dispatch"
    /\ ~IsPdfUpload(file)
    /\ IsImageUpload(file)
    /\ pc' = "image_open"
    /\ UNCHANGED <<adapterVars, requestVars, pdfVars, result, imageVars, dedupVars>>

RaiseUnsupported ==
    /\ pc = "dispatch"
    /\ ~IsPdfUpload(file)
    /\ ~IsImageUpload(file)
    /\ exc' = HTTPException(400, "unsupported", None)
    /\ pc' = "handler_except"
    /\ UNCHANGED <<adapterVars, service, file, response, pdfVars, result, imageVars, dedupVars>>

(* fitz.open raises on bytes that are no PDF, or every page is read *)
ExtractPdfNative ==
    /\ pc = "pdf_native"
    /\ \/ /\ exc' = Exc("FileDataError", "decode", 0, None)
          /\ pc' = "pdf_except"
          /\ UNCHANGED native_data
       \/ /\ \E n \in 0..MaxPages : \E contents \in [1..n -> NativeContents] :
                native_data' =
                    [pages |-> [i \in 1..n |->
                                  NativePage(i, contents[i].words, contents[i].shapes)],
                     total_pages |-> n,
                     method |-> "pdf_native"]
          /\ pc' = "pdf_ocr"
          /\ UNCHANGED exc
    /\ UNCHANGED <<adapterVars, service, file, response, ocr_data, table_data, reconciled_pages,
                   result, imageVars, dedupVars>>

(* every page rendered and put through _multi_engine_ocr *)
ExtractPdfViaOcr ==
    /\ pc = "pdf_ocr"
    /\ LET n == Len(native_data.pages) IN
       \E found \in [1..n -> OcrResultsFor(service)] :
           ocr_data' =
               [pages |-> [i \in 1..n |-> OcrPage(i, Get(found[i], "words", <<>>))],
                total_pages |-> n,
                method |-> "pdf_ocr"]
    /\ pc' = "pdf_tables"
    /\ UNCHANGED <<adapterVars, requestVars, native_data, table_data, reconciled_pages,
                   result, imageVars, dedupVars>>

(* the tables pdfplumber found before it finished or raised; none when it is
   not installed.  pdfplumber opens the upload itself, and nothing ties the
   pages it finds to the pages fitz found *)
ExtractPdfTables ==
    /\ pc = "pdf_tables"
    /\ IF service.pdfplumber_available
       THEN \E n \in 0..MaxPages : table_data' \in TableInputs(n)
       ELSE table_data' = <<>>
    /\ pc' = "reconcile"
    /\ UNCHANGED <<adapterVars, requestVars, native_data, ocr_data, reconciled_pages,
                   result, imageVars, dedupVars>>

ReconcilePage ==
    /\ pc = "reconcile"
    /\ Len(reconciled_pages) < NumPages(native_data, ocr_data)
    /\ reconciled_pages' =
          Append(reconciled_pages,
                 ReconciledPage(native_data, ocr_data, table_data, Len(reconciled_pages)))
    /\ UNCHANGED <<adapterVars, pc, requestVars, native_data, ocr_data, table_data,
                   result, imageVars, dedupVars>>

ReconcileReturn ==
    /\ pc = "reconcile"
    /\ Len(reconciled_pages) = NumPages(native_data, ocr_data)
    /\ result' = ReconciledDocument(reconciled_pages)
    /\ pc' = "reconciled"
    /\ UNCHANGED <<adapterVars, requestVars, pdfVars, imageVars, dedupVars>>

(* except Exception in extract_pdf_with_coordinates *)
PdfExcept ==
    /\ pc = "pdf_except"
    /\ exc' = HTTPException(500, "pdf_extraction", exc)
    /\ pc' = "handler_except"
    /\ UNCHANGED <<adapterVars, service, file, response, pdfVars, result, imageVars, dedupVars>>

(* Image.open raises on bytes that are no image, or the image is decoded *)
ImageOpen ==
    /\ pc = "image_open"
    /\ \/ /\ exc' = Exc("UnidentifiedImageError", "decode", 0, None)
          /\ pc' = "image_except"
       \/ /\ pc' = "analyze_layout"
          /\ UNCHANGED exc
    /\ UNCHANGED <<adapterVars, service, file, response, pdfVars, result, imageVars, dedupVars>>

(* self.layout_model is read before the try: an object without the attribute
   raises AttributeError *)
AnalyzeLayout ==
    /\ pc = "analyze_layout"
    /\ IF "layout_model" \notin DOMAIN service
       THEN /\ exc' = Exc("AttributeError", "layout", 0, None)
            /\ pc' = "image_except"
            /\ UNCHANGED layout_elements
       ELSE /\ layout_elements' = <<>>
            /\ pc' = "image_ocr"
            /\ UNCHANGED exc
    /\ UNCHANGED <<adapterVars, service, file, response, pdfVars, result, dedupVars>>

(* except Exception in extract_image_with_layout *)
ImageExcept ==
    /\ pc = "image_except"
    /\ exc' = HTTPException(500, "image_extraction", exc)
    /\ pc' = "handler_except"
    /\ UNCHANGED <<adapterVars, service, file, response, pdfVars, result, imageVars, dedupVars>>

(* return JSONResponse(content=result) *)
Respond ==
    /\ pc = "reconciled"
    /\ response' = [status_code |-> 200, content |-> result]
    /\ pc' = "done"
    /\ UNCHANGED <<adapterVars, service, file, exc, pdfVars, result, imageVars, dedupVars>>

(* except Exception in extract_document: whatever was raised, the 400 of the
   dispatch included, leaves as a 500 whose detail is str(e) *)
HandlerExcept ==
    /\ pc = "handler_except"
    /\ response' = [status_code |-> 500, content |-> exc]
    /\ pc' = "done"
    /\ UNCHANGED <<adapterVars, service, file, exc, pdfVars, result, imageVars, dedupVars>>

Next ==
    \/ ReceiveUpload \/ DispatchPdf \/ DispatchImage \/ RaiseUnsupported
    \/ ExtractPdfNative \/ ExtractPdfViaOcr \/ ExtractPdfTables
    \/ ReconcilePage \/ ReconcileReturn \/ PdfExcept
    \/ ImageOpen \/ AnalyzeLayout \/ ImageExcept
    \/ Respond \/ HandlerExcept

Spec == Init /\ [][Next]_vars

-----------------------------------------------------------------------------
(* _reconcile_extraction_sources called on its own: any two page lists, of   *)
(* equal length or not; a family of one-page inputs with a native words,     *)
(* b OCR words and k of them laid over a native word                         *)

MaxNativeWords == 5
MaxOcrWords == 6

AllOcrResults == UNION {OcrResultsFor(svc) : svc \in Services}

(* the i-th of the pairwise disjoint 2 x 2 cells, eight to a row *)
CellBox(i) == Box(2 * ((i - 1) % 8), 2 * ((i - 1) \div 8), 2, 2)

PairedNativeWords(a, conf) == [i \in 1..a |-> Word(TextA, CellBox(i), conf)]

PairedOcrWords(a, b, k) ==
    [j \in 1..b |->
        OcrWord(TextA, CellBox(IF j <= k THEN j ELSE a + j - k), 90, "tesseract")]

PagesOf(contents) ==
    [pages |-> [i \in 1..Len(contents) |->
                  NativePage(i, contents[i].words, contents[i].shapes)],
     total_pages |-> Len(contents),
     method |-> "pdf_native"]

OcrPagesOf(found) ==
    [pages |-> [i \in 1..Len(found) |-> OcrPage(i, Get(found[i], "words", <<>>))],
     total_pages |-> Len(found),
     method |-> "pdf_ocr"]

InitReconcile ==
    /\ pc = "reconcile"
    /\ \/ /\ \E contents \in SeqsUpTo(NativeContents, MaxPages) :
                native_data = PagesOf(contents)
          /\ \E found \in SeqsUpTo(AllOcrResults, MaxPages) :
                ocr_data = OcrPagesOf(found)
          /\ \E n \in 0..MaxPages : table_data \in TableInputs(n)
       \/ /\ \E a \in 0..MaxNativeWords, b \in 0..MaxOcrWords, conf \in {50, 100} :
             \E k \in 0..Min2(a, b) :
                /\ native_data =
                      PagesOf(<<[words |-> PairedNativeWords(a, conf), shapes |-> <<>>]>>)
                /\ ocr_data = OcrPagesOf(<<[words |-> PairedOcrWords(a, b, k)]>>)
          /\ table_data = <<>>
    /\ reconciled_pages = <<>> /\ result = None
    /\ service = None /\ file = None /\ exc = None /\ response = None
    /\ layout_elements = <<>>
    /\ words = <<>> /\ word_idx = 1 /\ unique_words = <<>>
    /\ raw_page = None /\ emitted = <<>>

NextReconcile == ReconcilePage \/ ReconcileReturn

SpecReconcile == InitReconcile /\ [][NextReconcile]_vars

-----------------------------------------------------------------------------
(* The adapters' conversion of absolute boxes to page-relative ones, run on  *)
(* one page: native spans and pdfplumber tables come as corners              *)
(* (x0, y0, x1, y1), tesseract rows as (left, top, width, height).  The      *)
(* quotients are kept as fractions of the absolute units.                    *)

MaxBoxes == 2

(* bbox[0] / width, bbox[1] / height, (bbox[2] - bbox[0]) / width, ... *)
NormalizeCorners(bbox, width, height) ==
    [x |-> Frac(bbox[1], width),
     y |-> Frac(bbox[2], height),
     width |-> Frac(bbox[3] - bbox[1], width),
     height |-> Frac(bbox[4] - bbox[2], height)]

(* x / image_np.shape[1], y / image_np.shape[0], w / ..., h / ... *)
NormalizeXYWH(box, width, height) ==
    [x |-> Frac(box[1], width),
     y |-> Frac(box[2], height),
     width |-> Frac(box[3], width),
     height |-> Frac(box[4], height)]

(* a division of the conversion has a zero divisor *)
DividesByZero(page) == page.width = 0 \/ page.height = 0

PageDims == {[width |-> 16, height |-> 8], [width |-> 10, height |-> 10]}

(* a box inside either page, one that runs over the right edge of both, and
   one that starts left of and above the page *)
RawCorners == {<<0, 0, 8, 4>>, <<6, 2, 18, 6>>, <<-2, -1, 6, 3>>}

(* tesseract's boxes lie inside the image it was given *)
RawRows == {<<0, 0, 8, 4>>, <<4, 2, 6, 6>>}

RawPage(kind, dims, boxes) ==
    [kind |-> kind, width |-> dims.width, height |-> dims.height, boxes |-> boxes]

InitAdapter ==
    /\ pc = "adapter"
    /\ \E dims \in PageDims :
          \/ \E kind \in {"pdf_native", "pdf_tables"} :
               \E boxes \in SeqsUpTo(RawCorners, MaxBoxes) :
                  raw_page = RawPage(kind, dims, boxes)
          \/ \E boxes \in SeqsUpTo(RawRows, MaxBoxes) :
                  raw_page = RawPage("tesseract", dims, boxes)
    /\ emitted = <<>>
    /\ service = None /\ file = None /\ exc = None /\ response = None
    /\ native_data = None /\ ocr_data = None /\ table_data = <<>>
    /\ reconciled_pages = <<>> /\ result = None
    /\ layout_elements = <<>>
    /\ words = <<>> /\ word_idx = 1 /\ unique_words = <<>>

(* the span loop of _extract_pdf_native: no try around the divisions *)
EmitNativeWord ==
    /\ pc = "adapter"
    /\ raw_page.kind = "pdf_native"
    /\ Len(emitted) < Len(raw_page.boxes)
    /\ IF DividesByZero(raw_page)
       THEN /\ exc' = Exc("ZeroDivisionError", "native", 0, None)
            /\ pc' = "adapter_raised"
            /\ UNCHANGED emitted
       ELSE /\ emitted' =
                 Append(emitted,
                        [bbox |-> NormalizeCorners(raw_page.boxes[Len(emitted) + 1],
                                                   raw_page.width, raw_page.height),
                         confidence |-> 100])
            /\ UNCHANGED <<pc, exc>>
    /\ UNCHANGED <<service, file, response, pdfVars, result, imageVars, dedupVars,
                   raw_page>>

(* the table loop of _extract_pdf_tables: a raised division ends the loop in
   the except clause and the tables built so far are returned *)
EmitTable ==
    /\ pc = "adapter"
    /\ raw_page.kind = "pdf_tables"
    /\ Len(emitted) < Len(raw_page.boxes)
    /\ IF DividesByZero(raw_page)
       THEN /\ pc' = "adapter_done"
            /\ UNCHANGED emitted
       ELSE /\ emitted' =
                 Append(emitted,
                        [bbox |-> NormalizeCorners(raw_page.boxes[Len(emitted) + 1],
                                                   raw_page.width, raw_page.height),
                         page_number |-> 1])
            /\ UNCHANGED pc
    /\ UNCHANGED <<requestVars, pdfVars, result, imageVars, dedupVars, raw_page>>

(* the row loop of _multi_engine_ocr for tesseract: inside the engine's try *)
EmitTesseractWord ==
    /\ pc = "adapter"
    /\ raw_page.kind = "tesseract"
    /\ Len(emitted) < Len(raw_page.boxes)
    /\ IF DividesByZero(raw_page)
       THEN /\ pc' = "adapter_done"
            /\ UNCHANGED emitted
       ELSE /\ emitted' =
                 Append(emitted,
                        [bbox |-> NormalizeXYWH(raw_page.boxes[Len(emitted) + 1],
                                                raw_page.width, raw_page.height),
                         engine |-> "tesseract"])
            /\ UNCHANGED pc
    /\ UNCHANGED <<requestVars, pdfVars, result, imageVars, dedupVars, raw_page>>

AdapterReturn ==
    /\ pc = "adapter"
    /\ Len(emitted) = Len(raw_page.boxes)
    /\ pc' = "adapter_done"
    /\ UNCHANGED <<requestVars, pdfVars, result, imageVars, dedupVars, adapterVars>>

NextAdapter == EmitNativeWord \/ EmitTable \/ EmitTesseractWord \/ AdapterReturn

SpecAdapter == InitAdapter /\ [][NextAdapter]_vars

-----------------------------------------------------------------------------
(* Properties of _deduplicate_words (checked under SpecDedup) *)

Items(s) == {s[i] : i \in 1..Len(s)}

Count(s, v) == Cardinality({i \in 1..Len(s) : s[i] = v})

(* the double threshold as the specification words it *)
MeetsDoubleThreshold(w, e) ==
    /\ Overlaps(w.bbox, e.bbox)
    /\ IoU(w.bbox, e.bbox).num * 10 > 7 * IoU(w.bbox, e.bbox).den
    /\ TextSimilarity(w.text, e.text).num * 10 > 8 * TextSimilarity(w.text, e.text).den

DedupDone == pc = "dedup_done"

(* C3: deduplication is idempotent: deduplicating the returned list again
   gives the same set of words. *)
C3_DedupIdempotent ==
    DedupDone => Items(DeduplicateWords(unique_words)) = Items(unique_words)

(* C4: the returned list holds no two distinct entries that satisfy the match
   predicate (IoU > 0.7 and text similarity > 0.8). *)
C4_NoRepeatsInResult ==
    DedupDone =>
        \A i, j \in 1..Len(unique_words) :
            i # j => ~MeetsDoubleThreshold(unique_words[i], unique_words[j])

(* C5: no merge below the double threshold: the result is a sub-collection of
   the input; every input occurrence missing from the result has another
   input occurrence that meets both thresholds with it; an input without any
   such pair is returned whole. *)
C5_NoMergeBelowThreshold ==
    DedupDone =>
        /\ \A v \in Items(unique_words) : Count(unique_words, v) <= Count(words, v)
        /\ \A i \in 1..Len(words) :
              Count(unique_words, words[i]) < Count(words, words[i])
                  => \E j \in 1..Len(words) :
                        j # i /\ MeetsDoubleThreshold(words[i], words[j])
        /\ (\A i, j \in 1..Len(words) :
                i # j => ~MeetsDoubleThreshold(words[i], words[j]))
              => unique_words = words

(* a run in which one word was merged away and two were kept *)
C5_Witness ==
    /\ DedupDone
    /\ Len(words) = 3
    /\ Len(unique_words) = 2
    /\ \E i, j \in 1..3 : i # j /\ ~Overlaps(words[i].bbox, words[j].bbox)

(* C6: two matching words with identical text and different confidences, in
   either order, leave exactly the higher-confidence record. *)
C6_HigherConfidenceWins ==
    (/\ DedupDone
     /\ Len(words) = 2
     /\ MeetsDoubleThreshold(words[1], words[2])
     /\ words[1].text = words[2].text
     /\ words[1].confidence # words[2].confidence)
        => unique_words =
             << IF words[1].confidence > words[2].confidence
                THEN words[1] ELSE words[2] >>

(* the later word has the higher confidence and a different box, and took the
   earlier one's place *)
C6_Witness ==
    /\ DedupDone
    /\ Len(words) = 2
    /\ MeetsDoubleThreshold(words[1], words[2])
    /\ words[1].text = words[2].text
    /\ words[1].bbox # words[2].bbox
    /\ words[1].confidence < words[2].confidence
    /\ unique_words = <<words[2]>>

-----------------------------------------------------------------------------
(* Properties of the request handler (checked under Spec) *)

RECURSIVE RootCause(_)
RootCause(e) == IF e.cause = None THEN e ELSE RootCause(e.cause)

Answered == pc = "done"

(* C1: the failure or absence of a single extraction source never ends a
   request in an error response: a request that is answered with an error
   was of an unsupported type or could not be decoded. *)
C1_SourceFailureNeverErrors ==
    (Answered /\ response.status_code # 200)
        => RootCause(response.content).origin \in {"unsupported", "decode"}

(* C2: an upload that is neither a PDF nor an image by content type or file
   name is answered with status 400, and no extraction was run for it. *)
C2_UnsupportedIs400 ==
    (Answered /\ ~IsPdfUpload(file) /\ ~IsImageUpload(file))
        => /\ response.status_code = 400
           /\ native_data = None /\ ocr_data = None /\ result = None

-----------------------------------------------------------------------------
(* Properties of the coverage figures *)

Hundred == Frac(100, 1)
Zero == Frac(0, 1)

PageCoverages(pages) == {pages[i].coverage : i \in 1..Len(pages)}

(* C8: in every document the service returns (and in every page it has
   reconciled on the way) coverage_percent lies between 0 and 100. *)
C8_CoverageInRange ==
    /\ \A c \in PageCoverages(reconciled_pages) :
          FracLeq(Zero, c.coverage_percent) /\ FracLeq(c.coverage_percent, Hundred)
    /\ (Answered /\ response.status_code = 200) =>
          \A c \in PageCoverages(response.content.pages) :
              FracLeq(Zero, c.coverage_percent) /\ FracLeq(c.coverage_percent, Hundred)

(* a returned page on which more words survive than either source produced,
   so that the quotient is above 100 before it is capped *)
C8_Witness ==
    /\ Answered
    /\ response.status_code = 200
    /\ \E c \in PageCoverages(response.content.pages) :
          /\ c.final_words > c.native_words
          /\ c.final_words > c.ocr_words
          /\ c.coverage_percent = Hundred

(* C9: a page for which every source produced zero words is reconciled
   (and returned) with native_words, ocr_words and final_words 0 and with a
   coverage_percent that is defined, the divisor being at least 1, and
   equal to 0. *)
ZeroWordPage(i) ==
    /\ native_data.pages[i].words = <<>>
    /\ ocr_data.pages[i].words = <<>>

ZeroCoverage(c) ==
    /\ c.native_words = 0 /\ c.ocr_words = 0 /\ c.final_words = 0
    /\ c.coverage_percent.den > 0
    /\ FracEq(c.coverage_percent, Zero)

C9_ZeroWordsZeroCoverage ==
    /\ \A i \in 1..Len(reconciled_pages) :
          ZeroWordPage(i) => ZeroCoverage(reconciled_pages[i].coverage)
    /\ (Answered /\ response.status_code = 200) =>
          \A i \in 1..Len(response.content.pages) :
              ZeroWordPage(i) => ZeroCoverage(response.content.pages[i].coverage)

(* a returned two-page document whose second page has no word from either
   source while the first has some *)
C9_Witness ==
    /\ Answered
    /\ response.status_code = 200
    /\ Len(response.content.pages) = 2
    /\ ~ZeroWordPage(1)
    /\ ZeroWordPage(2)
    /\ response.content.pages[2].coverage.final_words = 0

-----------------------------------------------------------------------------
(* Properties of _reconcile_extraction_sources (checked under SpecReconcile) *)

Reconciled == pc = "reconciled"

MatchPairs(all) ==
    { pr \in (1..Len(all)) \X (1..Len(all)) :
        pr[1] < pr[2] /\ MeetsDoubleThreshold(all[pr[1]], all[pr[2]]) }

(* every matching pair joins a native word and an OCR word, and no word is in
   two pairs *)
PairedAcrossSources(all, a) ==
    /\ \A pr \in MatchPairs(all) : pr[1] <= a /\ a < pr[2]
    /\ \A p1, p2 \in MatchPairs(all) :
          p1 # p2 => {p1[1], p1[2]} \cap {p2[1], p2[2]} = {}

(* min(100, final / max(a, b, 1) * 100) as the specification writes it *)
ExpectedCoverage(final, a, b) ==
    LET m == IF a >= b /\ a >= 1 THEN a ELSE IF b >= 1 THEN b ELSE 1 IN
    IF final * 100 >= 100 * m THEN Hundred ELSE Frac(final * 100, m)

InputWords(data, i) ==
    IF i <= Len(data.pages) THEN data.pages[i].words ELSE <<>>

(* C7: a page with a native words, b OCR words and exactly k matching pairs,
   all of them across the two sources and no word in two of them, is
   reconciled to a + b - k words with coverage min(100, final/max(a,b,1)*100). *)
C7_PairedPageCount ==
    \A i \in 1..Len(reconciled_pages) :
        LET nat == InputWords(native_data, i)
            ocr == InputWords(ocr_data, i)
            a == Len(nat)
            b == Len(ocr)
            k == Cardinality(MatchPairs(nat \o ocr))
            c == reconciled_pages[i].coverage
        IN  PairedAcrossSources(nat \o ocr, a) =>
              /\ Len(reconciled_pages[i].words) = a + b - k
              /\ c.native_words = a /\ c.ocr_words = b
              /\ c.final_words = a + b - k
              /\ FracEq(c.coverage_percent, ExpectedCoverage(a + b - k, a, b))

(* the page of the example: 5 native words, 6 OCR words, 4 pairs, the OCR
   word of each pair taking the native word's place; 7 words, coverage 100 *)
C7_Witness ==
    /\ Reconciled
    /\ Len(reconciled_pages) = 1
    /\ Len(InputWords(native_data, 1)) = 5
    /\ Len(InputWords(ocr_data, 1)) = 6
    /\ PairedAcrossSources(InputWords(native_data, 1) \o InputWords(ocr_data, 1), 5)
    /\ Cardinality(MatchPairs(InputWords(native_data, 1) \o InputWords(ocr_data, 1))) = 4
    /\ InputWords(native_data, 1)[1].confidence < InputWords(ocr_data, 1)[1].confidence
    /\ result.pages[1].coverage.final_words = 7
    /\ result.pages[1].coverage.coverage_percent = Hundred

RECURSIVE CoverageTotal(_)
CoverageTotal(pages) ==
    IF pages = <<>> THEN Zero
    ELSE FracAdd(Head(pages).coverage.coverage_percent, CoverageTotal(Tail(pages)))

(* C10: overall_coverage is the arithmetic mean of the pages' coverage_percent,
   0 for a document without pages; total_pages is the number of pages emitted
   (the longer of the two sources' page lists). *)
C10_OverallIsMean ==
    Reconciled =>
        LET n == Len(result.pages) IN
        /\ result.total_pages = n
        /\ n = Max2(Len(native_data.pages), Len(ocr_data.pages))
        /\ n = 0 => FracEq(result.overall_coverage, Zero)
        /\ n > 0 =>
              FracEq(Frac(result.overall_coverage.num * n, result.overall_coverage.den),
                     CoverageTotal(result.pages))

(* a two-page document whose pages differ in coverage *)
C10_Witness ==
    /\ Reconciled
    /\ Len(result.pages) = 2
    /\ ~FracEq(result.pages[1].coverage.coverage_percent,
               result.pages[2].coverage.coverage_percent)
    /\ Len(native_data.pages) # Len(ocr_data.pages)

-----------------------------------------------------------------------------
(* Shapes and tables of a reconciled document (checked under Spec) *)

InputShapes(data, i) ==
    IF i <= Len(data.pages) THEN Get(data.pages[i], "shapes", <<>>) ELSE <<>>

RECURSIVE TablesAttached(_)
TablesAttached(pages) ==
    IF pages = <<>> THEN 0
    ELSE Len(Head(pages).tables) + TablesAttached(Tail(pages))

ShapesConcatenated ==
    \A i \in 1..Len(result.pages) :
        /\ Len(result.pages[i].shapes) =
              Len(InputShapes(native_data, i)) + Len(InputShapes(ocr_data, i))
        /\ result.pages[i].shapes =
              InputShapes(native_data, i) \o InputShapes(ocr_data, i)

(* C11 as stated: shapes and tables are concatenated, never deduplicated or
   dropped: every page's shapes are the native page's followed by the OCR
   page's, as many as the two pages have together, and the tables attached
   to the pages are as many as the table detector produced. *)
C11_NothingDropped ==
    Reconciled =>
        /\ ShapesConcatenated
        /\ TablesAttached(result.pages) = Len(table_data)

(* C11 as amended: every page's shapes are the native page's followed by the
   OCR page's, and the tables attached to the pages are as many as the table
   detector produced with a page_number from 1 to total_pages. *)
C11_NothingInRangeDropped ==
    Reconciled =>
        /\ ShapesConcatenated
        /\ TablesAttached(result.pages) =
              Cardinality({j \in 1..Len(table_data) :
                             table_data[j].page_number \in 1..result.total_pages})

(* a one-page document with a rectangle and a line; the table detector found
   two tables on page 1 and one on a page 2, and the page has the first two *)
C11_Witness ==
    /\ Reconciled
    /\ Len(result.pages) = 1
    /\ result.pages[1].shapes = <<ShapeRect, ShapeLine>>
    /\ Len(table_data) = 3
    /\ Len(result.pages[1].tables) = 2

-----------------------------------------------------------------------------
(* extraction_methods of a returned document (checked under Spec) *)

Listed(methods, names) == \E i \in 1..Len(methods) : methods[i] \in names

RECURSIVE RecordsOf(_, _)
RecordsOf(pages, key) ==
    IF pages = <<>> THEN 0
    ELSE Len(Get(Head(pages), key, <<>>)) + RecordsOf(Tail(pages), key)

(* C12: extraction_methods names a source type exactly when that source
   contributed at least one record: the native source a word or a shape, the
   OCR source a word, the table detector a table. *)
C12_MethodsAreContributors ==
    (Answered /\ response.status_code = 200) =>
        LET methods == response.content.extraction_methods IN
        /\ Listed(methods, {"pdf_native"})
              <=> (RecordsOf(native_data.pages, "words")
                     + RecordsOf(native_data.pages, "shapes") > 0)
        /\ Listed(methods, {"ocr_paddle", "ocr_tesseract", "ocr_easy", "pdf_ocr"})
              <=> RecordsOf(ocr_data.pages, "words") > 0
        /\ Listed(methods, {"pdf_tables"}) <=> Len(table_data) > 0

-----------------------------------------------------------------------------
(* Properties of the adapters' boxes (checked under SpecAdapter) *)

InUnitInterval(f) == f.den > 0 /\ 0 <= f.num /\ f.num <= f.den

(* C13: every box an adapter emits has x, y, width and height in [0, 1],
   also when the absolute box runs over the page edge; and a page with a zero
   width or height is turned down with InvalidPageDimension. *)
C13_BoxesClamped ==
    /\ \A i \in 1..Len(emitted) :
          /\ InUnitInterval(emitted[i].bbox.x)
          /\ InUnitInterval(emitted[i].bbox.y)
          /\ InUnitInterval(emitted[i].bbox.width)
          /\ InUnitInterval(emitted[i].bbox.height)
    /\ (raw_page # None /\ DividesByZero(raw_page) /\ pc # "adapter")
          => (exc # None /\ exc.type = "InvalidPageDimension")

-----------------------------------------------------------------------------
(* The effect of one incoming word on the result list (SpecDedup) *)

(* a step of the scan takes the word at word_idx *)
WordTaken == pc = "dedup" /\ word_idx <= Len(words) /\ word_idx' = word_idx + 1

(* the entries of the list that the word matches, by position *)
MatchedAt(list, w) == {i \in 1..Len(list) : IsMatch(w, list[i])}

FirstOf(S) == CHOOSE i \in S : \A k \in S : i <= k

(* list with the entry at position j taken out and w put at the end *)
MovedToEnd(list, j, w) ==
    [i \in 1..Len(list) |->
        IF i < j THEN list[i]
        ELSE IF i < Len(list) THEN list[i + 1]
        ELSE w]

(* C14 as the spec states it: an incoming word with a match either takes the
   place of the first matching entry, at that entry's position, when its
   confidence is strictly higher, or leaves the list as it is; a word
   without a match leaves every entry where it stands; the list never gets
   shorter. *)
C14_ReplacedInPlace ==
    [][WordTaken =>
         LET w == words[word_idx]
             M == MatchedAt(unique_words, w)
         IN  /\ Len(unique_words') >= Len(unique_words)
             /\ M = {} =>
                   SubSeq(unique_words', 1, Len(unique_words)) = unique_words
             /\ M # {} =>
                   IF w.confidence > unique_words[FirstOf(M)].confidence
                   THEN unique_words' = [unique_words EXCEPT ![FirstOf(M)] = w]
                   ELSE unique_words' = unique_words]_vars

(* C14 as the code has it: an incoming word with a match either removes the
   first matching entry and goes to the end of the list, when its confidence
   is strictly higher, or leaves the list as it is (equal confidence
   included); the other entries keep their content and relative order, a
   word without a match leaves every entry where it stands, and the list
   never gets shorter. *)
C14_ReplacedAtEnd ==
    [][WordTaken =>
         LET w == words[word_idx]
             M == MatchedAt(unique_words, w)
         IN  /\ Len(unique_words') >= Len(unique_words)
             /\ M = {} =>
                   SubSeq(unique_words', 1, Len(unique_words)) = unique_words
             /\ M # {} =>
                   IF w.confidence > unique_words[FirstOf(M)].confidence
                   THEN unique_words' = MovedToEnd(unique_words, FirstOf(M), w)
                   ELSE unique_words' = unique_words]_vars

(* a higher-confidence third word has beaten the first of two entries and
   now stands behind the second, which it does not match *)
C14_Witness ==
    /\ pc = "dedup" /\ Len(words) = 3 /\ word_idx = 4
    /\ IsMatch(words[3], words[1])
    /\ ~IsMatch(words[2], words[1])
    /\ ~IsMatch(words[3], words[2])
    /\ words[3].confidence > words[1].confidence
    /\ unique_words = <<words[2], words[3]>>

-----------------------------------------------------------------------------
(* Texts without tokens (checked under SpecBlank) *)

NoTokens(text) == \A i \in 1..Len(text) : IsSpace(text[i])

(* C15: the similarity of two texts is 0 when neither carries a token (both
   empty or both whitespace-only) and when exactly one of them carries none,
   so a list of token-less words comes back from _deduplicate_words with
   every word still in it, however much their boxes overlap. *)
C15_BlankTextsNeverMatch ==
    DedupDone =>
        /\ \A i \in 1..Len(words) : \A j \in (i + 1)..Len(words) :
              (NoTokens(words[i].text) \/ NoTokens(words[j].text))
                  => FracEq(TextSimilarity(words[i].text, words[j].text), Frac(0, 1))
        /\ (\A i \in 1..Len(words) : NoTokens(words[i].text))
              => unique_words = words

====
